---------------------------- MODULE Spec2Model ----------------------------
(***************************************************************************)
(* A model of the cortana commander (src/cortana.go, src/command.go):      *)
(* the command registry, the SearchCommand token walk and the Parse        *)
(* binding pipeline.                                                       *)
(*                                                                         *)
(* Strings are sequences of one-character strings, ordered byte-wise as    *)
(* Go's strings.Compare orders them.  A command path is a string, the      *)
(* registry a set of entries with pairwise different paths (the btree of   *)
(* src/command.go keyed by Path).                                          *)
(***************************************************************************)
EXTENDS Integers, Sequences, FiniteSets, TLC

VARIABLES
    commands,   \* Cortana.commands: the registered entries
    seq,        \* Cortana.seq: the order tag of the next registration
    ctx,        \* Cortana.ctx: [name, args, longest]
    sc,         \* the frame of the running SearchCommand call
    exitOnErr,  \* Cortana.exitOnErr
    predefined, \* Cortana.predefined: the help flag and the config-path flag
    configs,    \* Cortana.configs: the configuration sources [path, requireExist]
    envs,       \* Cortana.envs: the environment unmarshalers
    parsing,    \* Cortana.parsing: [flags, nonflags] of the running Parse call
    files,      \* the file system: path -> content, for the files that exist
    call,       \* the Parse calls of the command body: [shape, args, again, ignoreUnknown]
    v,          \* the target record of the Parse call: field name -> value
    ps,         \* the frame of the running Parse call
    errs,       \* the errors handed to fatal, in order
    usage,      \* the usage texts handed to the onUsage callback
    prev,       \* what the previous Parse call of this process left
    out,        \* what the last query of the registry, or the last Launch, returned
    lc          \* the frame of the running Launch call

searchVars == <<commands, seq, sc, out, lc>>
parseVars == <<exitOnErr, predefined, configs, envs, parsing, files, call, v, ps, errs,
               usage, prev>>
vars == <<commands, seq, ctx, sc, exitOnErr, predefined, configs, envs, parsing, files,
          call, v, ps, errs, usage, prev, out, lc>>

----------------------------------------------------------------------------
(* Bounds of the model.                                                    *)

\* registrations made before the first resolution
MaxSeq == 3
\* tokens of an argument vector handed to SearchCommand
MaxArgs == 3

----------------------------------------------------------------------------
(* Strings.                                                                *)

\* the bytes the model's strings are made of, in ascending byte order
ByteOrder ==
    << " ", "\"", "-", "0", "1", "7", "=", "a", "b", "c", "e", "h", "i", "l",
       "n", "o", "r", "s", "t", "u", "w", "x", "y", "xFF" >>

Ord(ch) == CHOOSE k \in 1..Len(ByteOrder) : ByteOrder[k] = ch

\* strings.Compare(a, b) < 0
StrLess(a, b) ==
    \E k \in 1..Len(b) :
        /\ \A j \in 1..(k - 1) : j <= Len(a) /\ a[j] = b[j]
        /\ \/ k = Len(a) + 1
           \/ k <= Len(a) /\ Ord(a[k]) < Ord(b[k])

\* strings.HasPrefix(s, p)
HasPrefix(s, p) == Len(p) <= Len(s) /\ SubSeq(s, 1, Len(p)) = p

RECURSIVE TrimLeft(_)
TrimLeft(s) == IF s # <<>> /\ Head(s) = " " THEN TrimLeft(Tail(s)) ELSE s

RECURSIVE TrimRight(_)
TrimRight(s) ==
    IF s # <<>> /\ s[Len(s)] = " " THEN TrimRight(SubSeq(s, 1, Len(s) - 1)) ELSE s

\* strings.TrimSpace(s)
TrimSpace(s) == TrimRight(TrimLeft(s))

\* a token that starts with the flag marker
IsFlagToken(arg) == HasPrefix(arg, <<"-">>)

\* the words of the model
W_say == << "s", "a", "y" >>
W_hello == << "h", "e", "l", "l", "o" >>
W_cortana == << "c", "o", "r", "t", "a", "n", "a" >>
W_hi == << "h", "i" >>
T_n == << "-", "n" >>

RECURSIVE JoinWords(_)
\* strings.Join(ws, " ")
JoinWords(ws) ==
    IF ws = <<>> THEN <<>>
    ELSE IF Len(ws) = 1 THEN ws[1]
    ELSE ws[1] \o <<" ">> \o JoinWords(Tail(ws))

P_root == <<>>
P_say == W_say
P_say_hello == JoinWords(<<W_say, W_hello>>)
P_say_hello_cortana == JoinWords(<<W_say, W_hello, W_cortana>>)

\* the paths registrations draw from
PathPool == {P_root, P_say, P_say_hello, P_say_hello_cortana}
\* the action each path is registered with in src/example/say.go
ProcOf(path) ==
    IF path = P_say_hello_cortana THEN "sayHelloCortana"
    ELSE IF path = P_say_hello THEN "sayHelloAnyone"
    ELSE "sayAnything"
\* the tokens argument vectors draw from
TokenPool == {W_say, W_hello, W_cortana, W_hi, T_n}

RECURSIVE SeqsUpTo(_, _)
SeqsUpTo(S, n) ==
    IF n = 0 THEN {<<>>}
    ELSE LET shorter == SeqsUpTo(S, n - 1)
         IN shorter \cup {Append(s, x) : s \in {t \in shorter : Len(t) = n - 1}, x \in S}

ArgVectors == SeqsUpTo(TokenPool, MaxArgs)

----------------------------------------------------------------------------
(* The registry, src/command.go.                                           *)

NoCmd == [Path |-> <<"xFF">>, Proc |-> "nil", Brief |-> "", Alias |-> FALSE, order |-> -1]

\* the entry joins the set, an entry with an equal Path stays
InsertOnly(t, e) == t \cup {e}

\* btree.ReplaceOrInsert: the entry with an equal Path is replaced
ReplaceOrInsert(t, e) == {x \in t : x.Path # e.Path} \cup {e}

RECURSIVE Descending(_)
\* the entries of a set in descending order of Path
Descending(S) ==
    IF S = {} THEN <<>>
    ELSE LET m == CHOOSE x \in S : \A y \in S \ {x} : StrLess(y.Path, x.Path)
         IN <<m>> \o Descending(S \ {m})

RECURSIVE Ascending(_)
\* the entries of a set in ascending order of Path
Ascending(S) ==
    IF S = {} THEN <<>>
    ELSE LET m == CHOOSE x \in S : \A y \in S \ {x} : StrLess(x.Path, y.Path)
         IN <<m>> \o Ascending(S \ {m})

\* commands.scan: AscendRange(prefix, prefix + "\xFF")
scan(prefix) ==
    LET end == prefix \o <<"xFF">>
    IN Ascending({x \in commands : ~StrLess(x.Path, prefix) /\ StrLess(x.Path, end)})

\* commands.get
get(path) ==
    IF \E x \in commands : x.Path = path
    THEN CHOOSE x \in commands : x.Path = path
    ELSE NoCmd

\* nothing was asked yet
NoOut == [op |-> "none", arg |-> <<>>, result |-> <<>>]

\* no Launch is running; n counts the calls that are over
IdleLaunch == [pc |-> "idle", args |-> <<>>, n |-> 0]

\* Cortana.AddCommand
AddCommand(path, proc) ==
    /\ sc.pc = "idle"
    /\ seq < MaxSeq
    /\ commands' = ReplaceOrInsert(commands,
           [Path |-> path, Proc |-> proc, Brief |-> proc, Alias |-> FALSE, order |-> seq])
    /\ seq' = seq + 1
    /\ UNCHANGED <<ctx, sc, out, lc, parseVars>>

\* Cortana.Complete(prefix)
Complete(prefix) ==
    /\ sc.pc = "idle"
    /\ out' = [op |-> "Complete", arg |-> prefix, result |-> scan(prefix)]
    /\ UNCHANGED <<commands, seq, ctx, sc, lc, parseVars>>

\* Cortana.Commands()
Commands ==
    /\ sc.pc = "idle"
    /\ out' = [op |-> "Commands", arg |-> <<>>, result |-> scan(<<>>)]
    /\ UNCHANGED <<commands, seq, ctx, sc, lc, parseVars>>

\* an exact lookup, commands.get(path); nil is the empty result
Lookup(path) ==
    /\ sc.pc = "idle"
    /\ out' = [op |-> "get", arg |-> path,
               result |-> IF get(path) = NoCmd THEN <<>> ELSE <<get(path)>>]
    /\ UNCHANGED <<commands, seq, ctx, sc, lc, parseVars>>

----------------------------------------------------------------------------
(* SearchCommand, src/cortana.go 170-305: one action per case of the       *)
(* switch, each the handling of one token.                                 *)

EmptyCtx == [name |-> <<>>, args |-> <<>>, longest |-> <<>>]

IdleFrame ==
    [pc |-> "idle", args |-> <<>>, i |-> 0, st |-> "StateCommand", path |-> <<>>,
     cmd |-> NoCmd, cmdArgs |-> <<>>, maybeArgs |-> <<>>]

\* lines 171-186: the context is reset, cmd starts as the root entry if any
SearchBegin(args) ==
    /\ sc.pc = "idle"
    /\ ctx' = EmptyCtx
    /\ sc' = [pc |-> "run", args |-> args, i |-> 1, st |-> "StateCommand",
              path |-> <<>>, cmd |-> get(<<>>), cmdArgs |-> <<>>, maybeArgs |-> <<>>]
    /\ UNCHANGED <<commands, seq, out, lc, parseVars>>

InState(s) == sc.pc = "run" /\ sc.i <= Len(sc.args) /\ sc.st = s

Arg == sc.args[sc.i]

\* p := strings.TrimSpace(path + " " + arg)
Extended == TrimSpace(sc.path \o <<" ">> \o Arg)

\* the flag is put before the arguments seen so far
PushFlagFront ==
    sc' = [sc EXCEPT !.i = @ + 1, !.st = "StateOptionFlag", !.cmdArgs = <<Arg>> \o @]

\* the token is a flag: it goes to cmdArgs and the state becomes StateOptionFlag
PushFlag ==
    sc' = [sc EXCEPT !.i = @ + 1, !.st = "StateOptionFlag", !.cmdArgs = Append(@, Arg)]

\* the deepest entry of the scan is committed
CommitDeepest(found) ==
    sc' = [sc EXCEPT !.i = @ + 1, !.st = "StateCommand", !.path = Extended,
                     !.cmd = found[Len(found)], !.maybeArgs = <<>>]

\* scan(p) is not empty and its first entry is p itself: commit
Commit(found) ==
    sc' = [sc EXCEPT !.i = @ + 1, !.st = "StateCommand", !.path = Extended,
                     !.cmd = found[1], !.maybeArgs = <<>>]

\* scan(p) is not empty, no exact match: the token is buffered
Buffer ==
    sc' = [sc EXCEPT !.i = @ + 1, !.st = "StateCommandPrefix", !.path = Extended,
                     !.maybeArgs = Append(@, Arg)]

\* the token is an argument of the command
PushArg(next) ==
    sc' = [sc EXCEPT !.i = @ + 1, !.st = next, !.cmdArgs = Append(@, Arg)]

\* case StateCommand with a word that extends no path taken as unknown
\* whether or not a command is committed
StepCommandStrict ==
    /\ InState("StateCommand")
    /\ LET found == scan(Extended)
       IN IF IsFlagToken(Arg) THEN PushFlag
          ELSE IF Len(found) > 0
               THEN IF found[1].Path = Extended THEN Commit(found) ELSE Buffer
          ELSE sc' = [sc EXCEPT !.pc = "done", !.cmd = NoCmd]
    /\ UNCHANGED <<commands, seq, ctx, out, lc, parseVars>>

\* case StateCommand, lines 190-215
StepCommand ==
    /\ InState("StateCommand")
    /\ LET found == scan(Extended)
       IN IF IsFlagToken(Arg) THEN PushFlag
          ELSE IF Len(found) > 0
               THEN IF found[1].Path = Extended THEN Commit(found) ELSE Buffer
          ELSE IF sc.cmd # NoCmd THEN PushArg("StateCommandArg")
          ELSE sc' = [sc EXCEPT !.pc = "done", !.cmd = NoCmd]   \* return nil
    /\ UNCHANGED <<commands, seq, ctx, out, lc, parseVars>>

\* case StateCommandPrefix, lines 217-235
StepCommandPrefix ==
    /\ InState("StateCommandPrefix")
    /\ LET found == scan(Extended)
       IN IF IsFlagToken(Arg) THEN PushFlag
          ELSE IF Len(found) > 0
               THEN IF found[1].Path = Extended THEN Commit(found)
                    ELSE sc' = [sc EXCEPT !.i = @ + 1, !.path = Extended]
          ELSE sc' = [sc EXCEPT !.i = @ + 1]      \* the case ends, nothing is kept
    /\ UNCHANGED <<commands, seq, ctx, out, lc, parseVars>>

\* case StateOptionFlag, lines 237-258
StepOptionFlag ==
    /\ InState("StateOptionFlag")
    /\ LET found == scan(Extended)
       IN IF IsFlagToken(Arg)
          THEN sc' = [sc EXCEPT !.i = @ + 1, !.cmdArgs = Append(@, Arg)]
          ELSE IF Len(found) > 0
               THEN IF found[1].Path = Extended THEN Commit(found) ELSE Buffer
          ELSE PushArg("StateOptionArg")
    /\ UNCHANGED <<commands, seq, ctx, out, lc, parseVars>>

\* case StateOptionArg with every token taken as it is in StateCommandArg
StepOptionArgPlain ==
    /\ InState("StateOptionArg")
    /\ IF IsFlagToken(Arg) THEN PushFlag ELSE PushArg("StateCommandArg")
    /\ UNCHANGED <<commands, seq, ctx, out, lc, parseVars>>

\* case StateOptionArg, lines 260-282
StepOptionArg ==
    /\ InState("StateOptionArg")
    /\ LET found == scan(Extended)
       IN IF IsFlagToken(Arg) THEN PushFlag
          ELSE IF Len(found) > 0
               THEN IF found[1].Path = Extended THEN Commit(found) ELSE Buffer
          ELSE PushArg("StateCommandArg")
    /\ UNCHANGED <<commands, seq, ctx, out, lc, parseVars>>

\* case StateCommandArg, lines 284-291
StepCommandArg ==
    /\ InState("StateCommandArg")
    /\ IF IsFlagToken(Arg) THEN PushFlag ELSE PushArg("StateCommandArg")
    /\ UNCHANGED <<commands, seq, ctx, out, lc, parseVars>>

\* the context keeps the committed path as the longest one
SearchEndCommitted ==
    /\ sc.pc = "run"
    /\ sc.i > Len(sc.args)
    /\ ctx' = [name |-> IF sc.cmd # NoCmd THEN sc.cmd.Path ELSE sc.path,
               args |-> sc.cmdArgs \o sc.maybeArgs,
               longest |-> IF sc.cmd # NoCmd THEN sc.cmd.Path ELSE sc.path]
    /\ sc' = [sc EXCEPT !.pc = "done"]
    /\ UNCHANGED <<commands, seq, out, lc, parseVars>>

\* lines 294-304: the buffered tokens join the args, the context is set
SearchEnd ==
    /\ sc.pc = "run"
    /\ sc.i > Len(sc.args)
    /\ ctx' = [name |-> IF sc.cmd # NoCmd THEN sc.cmd.Path ELSE sc.path,
               args |-> sc.cmdArgs \o sc.maybeArgs,
               longest |-> sc.path]
    /\ sc' = [sc EXCEPT !.pc = "done"]
    /\ UNCHANGED <<commands, seq, out, lc, parseVars>>

----------------------------------------------------------------------------
(* Alias and Launch, src/cortana.go 154-167 and 460-482.                   *)

P_hi_cortana == JoinWords(<<W_hi, W_cortana>>)
D_say_hello == JoinWords(<<W_say, W_hello>>)
D_say_quoted == W_say \o <<" ", "\"">> \o W_hello \o <<" ">> \o W_cortana \o <<"\"">>

\* the definitions aliases are registered with
AliasDefs == {D_say_hello, D_say_quoted}

\* a definition that is the name of the alias itself
D_hi == W_hi

\* the closure processAlias of Alias(name, definition), named by what it captures
processAlias(definition) ==
    IF definition = D_say_hello THEN "alias say hello"
    ELSE IF definition = D_hi THEN "alias hi"
    ELSE "alias say \"hello cortana\""

\* the definition a closure captured
Definition(proc) == CHOOSE d \in AliasDefs \cup {D_hi} : processAlias(d) = proc

RECURSIVE FieldsFrom(_, _, _)
\* strings.FieldsFunc with the function of alias(): a quote toggles quoted
\* and stays in the field, a space separates unless quoted
FieldsFrom(s, quoted, cur) ==
    LET field == IF cur = <<>> THEN <<>> ELSE <<cur>>
    IN IF s = <<>> THEN field
       ELSE LET q == IF Head(s) = "\"" THEN ~quoted ELSE quoted
            IN IF Head(s) = " " /\ ~q
               THEN field \o FieldsFrom(Tail(s), q, <<>>)
               ELSE FieldsFrom(Tail(s), q, Append(cur, Head(s)))

Fields(definition) == FieldsFrom(definition, FALSE, <<>>)

\* the alias resolves its definition alone
aliasArgsOnly(definition, rest) == Fields(definition)

\* append(args, c.ctx.args...)
aliasArgs(definition, rest) == Fields(definition) \o rest

\* Cortana.Alias(name, definition)
Alias(name, definition) ==
    /\ sc.pc = "idle"
    /\ seq < MaxSeq
    /\ commands' = ReplaceOrInsert(commands,
           [Path |-> name, Proc |-> processAlias(definition),
            Brief |-> processAlias(definition), Alias |-> TRUE, order |-> seq])
    /\ seq' = seq + 1
    /\ UNCHANGED <<ctx, sc, out, lc, parseVars>>

\* Launch(args...), lines 154-158: the call of SearchCommand
Launch(args) ==
    /\ lc.pc = "idle"
    /\ sc.pc \in {"idle", "done"}
    /\ lc' = [lc EXCEPT !.pc = "Launch", !.args = args]
    /\ ctx' = EmptyCtx
    /\ sc' = [pc |-> "run", args |-> args, i |-> 1, st |-> "StateCommand",
              path |-> <<>>, cmd |-> get(<<>>), cmdArgs |-> <<>>, maybeArgs |-> <<>>]
    /\ UNCHANGED <<commands, seq, out, parseVars>>

\* what a Launch call ran: the command and the arguments its context held
Ran(cmd) == [Path |-> cmd.Path, Proc |-> cmd.Proc, args |-> ctx.args]

\* SearchCommand has returned to Launch (lines 158-166) or to alias (lines
\* 477-481): without a command the usage is shown, and Launch reports an
\* unknown command unless the first token is a flag; the action of an
\* alias resolves its definition followed by the context's arguments; any
\* other action runs
LaunchProc ==
    /\ lc.pc \in {"Launch", "alias"}
    /\ sc.pc = "done"
    /\ IF sc.cmd = NoCmd
       THEN LET reports == /\ lc.pc = "Launch"
                           /\ lc.args # <<>>
                           /\ ~IsFlagToken(lc.args[1])
            IN /\ usage' = usage + 1
               /\ errs' = IF reports THEN Append(errs, [kind |-> "UnknownCommand",
                                                       what |-> lc.args[1]])
                          ELSE errs
               /\ lc' = [lc EXCEPT !.pc = IF reports /\ exitOnErr THEN "exited" ELSE "idle",
                                   !.n = @ + 1]
               /\ out' = [op |-> "Launch", arg |-> lc.args, result |-> <<>>]
               /\ UNCHANGED <<ctx, sc>>
       ELSE IF sc.cmd.Alias
       THEN /\ lc' = [lc EXCEPT !.pc = "alias"]
            /\ ctx' = EmptyCtx
            /\ sc' = [pc |-> "run", args |-> aliasArgs(Definition(sc.cmd.Proc), ctx.args),
                      i |-> 1, st |-> "StateCommand", path |-> <<>>, cmd |-> get(<<>>),
                      cmdArgs |-> <<>>, maybeArgs |-> <<>>]
            /\ UNCHANGED <<out, errs, usage>>
       ELSE /\ lc' = [lc EXCEPT !.pc = "idle", !.n = @ + 1]
            /\ out' = [op |-> "Launch", arg |-> lc.args, result |-> <<Ran(sc.cmd)>>]
            /\ UNCHANGED <<ctx, sc, errs, usage>>
    /\ UNCHANGED <<commands, seq, exitOnErr, predefined, configs, envs, parsing, files,
                   call, v, ps, prev>>

----------------------------------------------------------------------------
(* Field descriptors: parseFlag (src/README.md 243-280) and                *)
(* parseCortanaTags (src/cortana.go 580-613).  A record shape is a sequence *)
(* of fields [Name, tag, kind]; a field of kind "struct" carries its own   *)
(* fields.  The destination rv of a binding is the field Name, its type    *)
(* the kind.                                                               *)

RECURSIVE Split(_, _)
\* strings.Split(s, sep) for a one-byte separator
Split(s, sep) ==
    IF \E k \in 1..Len(s) : s[k] = sep
    THEN LET k == CHOOSE j \in 1..Len(s) : s[j] = sep /\ \A m \in 1..(j - 1) : s[m] # sep
         IN <<SubSeq(s, 1, k - 1)>> \o Split(SubSeq(s, k + 1, Len(s)), sep)
    ELSE <<s>>

RECURSIVE JoinWith(_, _)
\* strings.Join(parts, sep)
JoinWith(parts, sep) ==
    IF parts = <<>> THEN <<>>
    ELSE IF Len(parts) = 1 THEN parts[1]
    ELSE parts[1] \o sep \o JoinWith(Tail(parts), sep)

EmptyFlag(name, kind) ==
    [name |-> name, long |-> <<>>, short |-> <<>>, required |-> FALSE,
     defaultValue |-> <<>>, description |-> <<>>, kind |-> kind]

RECURSIVE parseFlagFrom(_, _, _, _)
\* the loop of parseFlag from part k on, in state st
parseFlagFrom(f, parts, k, st) ==
    IF k > Len(parts) THEN f
    ELSE LET p == TrimSpace(parts[k])
         IN CASE st = "long" -> parseFlagFrom([f EXCEPT !.long = p], parts, k + 1, "short")
              [] st = "short" -> parseFlagFrom([f EXCEPT !.short = p], parts, k + 1, "defaultValue")
              [] st = "defaultValue" ->
                   IF p = <<"-">>
                   THEN parseFlagFrom([f EXCEPT !.required = TRUE], parts, k + 1, "description")
                   ELSE parseFlagFrom(
                            [f EXCEPT !.defaultValue =
                                 IF p \in {<<"'", "'">>, <<"\"", "\"">>} THEN <<>> ELSE p],
                            parts, k + 1, "description")
              [] OTHER ->
                   [f EXCEPT !.description =
                        TrimSpace(JoinWith(SubSeq(parts, k, Len(parts)), <<",">>))]

parseFlag(tag, name, kind) ==
    parseFlagFrom(EmptyFlag(name, kind), Split(tag, ","), 1, "long")

RECURSIVE parseCortanaTagsAppend(_)
\* the bindings of a nested record are put after those of the later fields
parseCortanaTagsAppend(fields) ==
    IF fields = <<>> THEN [flags |-> <<>>, nonflags |-> <<>>]
    ELSE LET ft == Head(fields)
             rest == parseCortanaTagsAppend(Tail(fields))
             f == parseFlag(ft.tag, ft.Name, ft.kind)
         IN IF ft.kind = "struct"
            THEN LET inner == parseCortanaTagsAppend(ft.fields)
                 IN [flags |-> rest.flags \o inner.flags,
                     nonflags |-> rest.nonflags \o inner.nonflags]
            ELSE IF HasPrefix(f.long, <<"-">>)
            THEN IF f.long # <<"-">> \/ f.short # <<"-">>
                 THEN [rest EXCEPT !.flags = <<f>> \o @]
                 ELSE rest
            ELSE [rest EXCEPT !.nonflags = <<f>> \o @]

RECURSIVE parseCortanaTags(_)
\* [flags, nonflags] of a record shape, nested records spliced in place
parseCortanaTags(fields) ==
    IF fields = <<>> THEN [flags |-> <<>>, nonflags |-> <<>>]
    ELSE LET ft == Head(fields)
             rest == parseCortanaTags(Tail(fields))
             f == parseFlag(ft.tag, ft.Name, ft.kind)
         IN IF ft.kind = "struct"
            THEN LET inner == parseCortanaTags(ft.fields)
                 IN [flags |-> inner.flags \o rest.flags,
                     nonflags |-> inner.nonflags \o rest.nonflags]
            ELSE IF HasPrefix(f.long, <<"-">>)
            THEN IF f.long # <<"-">> \/ f.short # <<"-">>
                 THEN [rest EXCEPT !.flags = <<f>> \o @]
                 ELSE rest
            ELSE [rest EXCEPT !.nonflags = <<f>> \o @]

\* buildArgsIndex (src/cortana.go 614-625): the flag a name maps to, the
\* last declared flag that carries it as its long or its short name
NoFlag == EmptyFlag("", "invalid")

Carries(f, key) == (f.long # <<>> /\ f.long = key) \/ (f.short # <<>> /\ f.short = key)

buildArgsIndex(flags, key) ==
    IF \E k \in 1..Len(flags) : Carries(flags[k], key)
    THEN flags[CHOOSE k \in 1..Len(flags) :
                   /\ Carries(flags[k], key)
                   /\ \A j \in (k + 1)..Len(flags) : ~Carries(flags[j], key)]
    ELSE NoFlag

----------------------------------------------------------------------------
(* Value coercion: applyValue (src/cortana.go 647-694).                    *)

\* no kind is treated as a sequence
IsSliceNever(kind) == FALSE

\* reflect.Slice
IsSlice(kind) == kind \in {"[]string", "[]int"}

Elem(kind) == IF kind = "[]string" THEN "string" ELSE "int"

\* the zero value of a kind; a nil slice is the empty sequence
Zero(kind) ==
    CASE kind \in {"int", "int8", "int16", "int32", "int64",
                   "uint", "uint8", "uint16", "uint32", "uint64"} -> 0
      [] kind = "bool" -> FALSE
      [] OTHER -> <<>>

Digits == <<"0", "1", "2", "3", "4", "5", "6", "7", "8", "9">>

IsDigit(ch) == \E d \in 1..Len(Digits) : Digits[d] = ch

DigitVal(ch) == (CHOOSE d \in 1..Len(Digits) : Digits[d] = ch) - 1

RECURSIVE Decimal(_)
Decimal(s) == IF s = <<>> THEN 0 ELSE 10 * Decimal(SubSeq(s, 1, Len(s) - 1)) + DigitVal(s[Len(s)])

RECURSIVE StripZeros(_)
StripZeros(s) == IF Len(s) > 1 /\ Head(s) = "0" THEN StripZeros(Tail(s)) ELSE s

\* the digits of 2^63 - 1, the largest int64
MaxInt64 ==
    <<"9", "2", "2", "3", "3", "7", "2", "0", "3", "6", "8", "5", "4", "7", "7", "5",
      "8", "0", "7">>

\* a <= b for digit strings of one length
DigitsLeq(a, b) ==
    \/ a = b
    \/ \E k \in 1..Len(a) :
           /\ \A j \in 1..(k - 1) : a[j] = b[j]
           /\ DigitVal(a[k]) < DigitVal(b[k])

\* the magnitude fits an int64 (the negative range reaches one further)
InInt64(body, negative) ==
    LET d == StripZeros(body)
    IN \/ Len(d) < Len(MaxInt64)
       \/ /\ Len(d) = Len(MaxInt64)
          /\ \/ DigitsLeq(d, MaxInt64)
             \/ negative /\ d = [MaxInt64 EXCEPT ![Len(MaxInt64)] = "8"]

\* strconv.ParseInt(s, 10, 64): an optional sign, then digits only
ParseInt(s) ==
    LET signed == s # <<>> /\ s[1] \in {"-", "+"}
        negative == signed /\ s[1] = "-"
        body == IF signed THEN Tail(s) ELSE s
    IN IF body = <<>> \/ \E k \in 1..Len(body) : ~IsDigit(body[k])
       THEN [ok |-> FALSE, val |-> 0]
       ELSE IF ~InInt64(body, negative)
       THEN [ok |-> FALSE, val |-> 0]
       ELSE [ok |-> TRUE, val |-> IF negative THEN 0 - Decimal(body) ELSE Decimal(body)]

TrueWords ==
    { <<"1">>, <<"t">>, <<"T">>, <<"t", "r", "u", "e">>, <<"T", "R", "U", "E">>,
      <<"T", "r", "u", "e">> }
FalseWords ==
    { <<"0">>, <<"f">>, <<"F">>, <<"f", "a", "l", "s", "e">>, <<"F", "A", "L", "S", "E">>,
      <<"F", "a", "l", "s", "e">> }

\* strconv.ParseBool
ParseBool(s) ==
    IF s \in TrueWords THEN [ok |-> TRUE, val |-> TRUE]
    ELSE IF s \in FalseWords THEN [ok |-> TRUE, val |-> FALSE]
    ELSE [ok |-> FALSE, val |-> FALSE]

\* strconv.ParseUint(s, 10, 64): digits only; the model's tokens that fit
\* an int64 also fit a uint64, and none lies between the two ranges
ParseUint(s) ==
    IF s = <<>> \/ \E k \in 1..Len(s) : ~IsDigit(s[k]) \/ ~InInt64(s, FALSE)
    THEN [ok |-> FALSE, val |-> 0]
    ELSE [ok |-> TRUE, val |-> Decimal(s)]

\* the bits of an integer kind
Width(kind) ==
    CASE kind \in {"int8", "uint8"} -> 8
      [] kind \in {"int16", "uint16"} -> 16
      [] kind \in {"int32", "uint32"} -> 32
      [] OTHER -> 64

\* reflect.Value.SetInt and SetUint: the value is converted to the type of
\* the destination, which keeps its low bits.  The numbers of the model are
\* below 2^31, so a destination of 32 or 64 bits holds them whole.
SetInteger(kind, x) ==
    IF Width(kind) # 16 THEN x
    ELSE IF kind = "uint16" THEN x % 65536
    ELSE ((x + 32768) % 65536) - 32768

\* applyValue on a scalar destination holding cur
applyScalar(kind, cur, s) ==
    CASE kind = "string" -> [ok |-> TRUE, val |-> s]
      [] kind = "int" ->
           LET r == ParseInt(s) IN [ok |-> r.ok, val |-> IF r.ok THEN r.val ELSE cur]
      [] kind \in {"int16", "int32", "int64"} ->
           LET r == ParseInt(s)
           IN [ok |-> r.ok, val |-> IF r.ok THEN SetInteger(kind, r.val) ELSE cur]
      [] kind \in {"uint", "uint16", "uint32", "uint64"} ->
           LET r == ParseUint(s)
           IN [ok |-> r.ok, val |-> IF r.ok THEN SetInteger(kind, r.val) ELSE cur]
      [] kind = "bool" ->
           LET r == ParseBool(s) IN [ok |-> r.ok, val |-> IF r.ok THEN r.val ELSE cur]
      [] OTHER -> [ok |-> TRUE, val |-> cur]

\* the empty token is parsed like any other
applyValueParse(kind, cur, s) ==
    IF IsSlice(kind)
    THEN LET e == applyScalar(Elem(kind), Zero(Elem(kind)), s)
         IN [ok |-> e.ok, val |-> IF e.ok THEN Append(cur, e.val) ELSE cur]
    ELSE applyScalar(kind, cur, s)

\* applyValue(v, s): [ok, val], val the destination's value afterwards
applyValue(kind, cur, s) ==
    IF s = <<>> THEN [ok |-> TRUE, val |-> cur]
    ELSE IF IsSlice(kind)
    THEN LET e == applyScalar(Elem(kind), Zero(Elem(kind)), s)
         IN [ok |-> e.ok, val |-> IF e.ok THEN Append(cur, e.val) ELSE cur]
    ELSE applyScalar(kind, cur, s)

\* reflect.Value.IsZero
IsZero(kind, val) == val = Zero(kind)

----------------------------------------------------------------------------
(* The inputs of Parse: record shapes, tokens, configuration files.        *)

L_name == <<"-", "-", "n", "a", "m", "e">>
L_age == <<"-", "-", "a", "g", "e">>
L_verbose == <<"-", "-", "v", "e", "r", "b", "o", "s", "e">>
L_help == <<"-", "-", "h", "e", "l", "p">>
L_config == <<"-", "-", "c", "o", "n", "f", "i", "g">>
T_v == <<"-", "v">>
T_h == <<"-", "h">>
T_c == <<"-", "c">>
T_dash == <<"-">>
W_text == <<"t", "e", "x", "t">>
W_rest == <<"r", "e", "s", "t">>
W_last == <<"l", "a", "s", "t">>
W_alice == <<"a", "l", "i", "c", "e">>
W_world == <<"w", "o", "r", "l", "d">>
W_tom == <<"t", "o", "m">>
W_ann == <<"a", "n", "n">>
W_bob == <<"b", "o", "b">>
W_oz == <<"o", "z">>
W_eve == <<"e", "v", "e">>
W_18 == <<"1", "8">>
W_7 == <<"7">>
W_0 == <<"0">>
W_num == <<"n", "u", "m">>
W_false == <<"f", "a", "l", "s", "e">>
W_minus7 == <<"-", "7">>
T_dashdash == <<"-", "-">>
L_tag == <<"-", "-", "t", "a", "g">>
\* the names of the configuration files
F_app == <<"a">>
F_etc == <<"b">>
F_other == <<"o">>

\* a struct tag: its parts joined by ", "
Tag(parts) == JoinWith(parts, <<",", " ">>)

\* the record of README.md 11-14: a flag --name/-n with default tom, a positional text
ShapeSay ==
    << [Name |-> "Name", tag |-> Tag(<<L_name, T_n, W_tom>>), kind |-> "string"],
       [Name |-> "Text", tag |-> W_text, kind |-> "string"] >>

\* the same record with a sequence-typed positional
ShapeSayAll ==
    << [Name |-> "Name", tag |-> Tag(<<L_name, T_n, W_tom>>), kind |-> "string"],
       [Name |-> "Text", tag |-> W_text, kind |-> "[]string"] >>

\* a record with a required flag, an integer flag, a boolean flag and a
\* required positional
ShapeReq ==
    << [Name |-> "Name", tag |-> Tag(<<L_name, T_n, T_dash>>), kind |-> "string"],
       [Name |-> "Age", tag |-> Tag(<<L_age, T_dash, W_18>>), kind |-> "int"],
       [Name |-> "Verbose", tag |-> Tag(<<L_verbose, T_v>>), kind |-> "bool"],
       [Name |-> "Text", tag |-> Tag(<<W_text, T_dash, T_dash>>), kind |-> "string"] >>

\* a record with one flag of each kind and no positional
ShapeForms ==
    << [Name |-> "Name", tag |-> Tag(<<L_name, T_n>>), kind |-> "string"],
       [Name |-> "Age", tag |-> Tag(<<L_age, T_dash, W_18>>), kind |-> "int"],
       [Name |-> "Verbose", tag |-> Tag(<<L_verbose, T_v>>), kind |-> "bool"],
       [Name |-> "Tags", tag |-> L_tag, kind |-> "[]string"] >>

\* a record with a required integer flag and a required integer positional
ShapeCount ==
    << [Name |-> "Age", tag |-> Tag(<<L_age, T_dash, T_dash>>), kind |-> "int"],
       [Name |-> "Num", tag |-> Tag(<<W_num, T_dash, T_dash>>), kind |-> "int"] >>

\* a record with a flag and two positionals, the second an integer
ShapePair ==
    << [Name |-> "Name", tag |-> Tag(<<L_name, T_n, W_tom>>), kind |-> "string"],
       [Name |-> "Text", tag |-> W_text, kind |-> "string"],
       [Name |-> "Num", tag |-> W_num, kind |-> "int"] >>

\* a record with a flag and a sequence-typed positional between two others
ShapeTail ==
    << [Name |-> "Name", tag |-> Tag(<<L_name, T_n, W_tom>>), kind |-> "string"],
       [Name |-> "Text", tag |-> W_text, kind |-> "string"],
       [Name |-> "Rest", tag |-> W_rest, kind |-> "[]string"],
       [Name |-> "Last", tag |-> W_last, kind |-> "string"] >>

\* a record whose flags share names: "-" stands for the long name of the
\* first and for the short name of the second, -v is declared twice
ShapeDash ==
    << [Name |-> "Quiet", tag |-> Tag(<<T_dash, T_v>>), kind |-> "bool"],
       [Name |-> "Age", tag |-> Tag(<<L_age, T_dash, W_18>>), kind |-> "int"],
       [Name |-> "Name", tag |-> Tag(<<L_name, T_v, W_tom>>), kind |-> "string"] >>

ShapeNames == {"Say", "SayAll", "Req", "Count"}

Shape(name) ==
    CASE name = "Say" -> ShapeSay
      [] name = "SayAll" -> ShapeSayAll
      [] name = "Forms" -> ShapeForms
      [] name = "Count" -> ShapeCount
      [] name = "Pair" -> ShapePair
      [] name = "Tail" -> ShapeTail
      [] name = "Dash" -> ShapeDash
      [] OTHER -> ShapeReq

\* the tokens the argument vectors of a shape draw from
ParseTokens(name) ==
    IF name = "Count" THEN {L_age, W_0, W_7}
    ELSE IF name = "Req"
    THEN {T_n, W_alice, L_age, W_7, T_v, T_h}
    ELSE {T_n, W_alice, W_hello, T_h, L_config, F_other}

\* README.md 20 with one more word, and a flag before and after the
\* config-path flag
ScenarioArgs(name) ==
    IF name \in {"Req", "Count"} THEN {}
    ELSE { <<T_n, W_alice, W_hello, W_world>>,
           <<W_hello, L_help>>,
           <<T_n, <<>>>>,
           <<L_config, <<>>>>,
           <<<<>>, W_hello>>,
           <<L_age, W_7, W_hello>>,
           <<W_hello, T_v, W_alice>>,
           <<T_n, W_alice, L_config, F_other>>,
           <<L_config, F_other, T_n, W_alice>>,
           <<L_config, F_other, L_config, F_app>> }

\* tokens of an argument vector handed to Parse
MaxParseArgs == 3

ParseArgVectors(name) == SeqsUpTo(ParseTokens(name), MaxParseArgs) \cup ScenarioArgs(name)

\* a command body that calls Parse on the context's args and, if that call
\* returns, once more with WithArgs(again)
Calls ==
    UNION { {[shape |-> n, args |-> a, again |-> a, ignoreUnknown |-> g] :
                a \in ParseArgVectors(n), g \in BOOLEAN} : n \in ShapeNames }

\* the flag names and the value tokens of the two ways to give a flag its value
FormKeys == {L_name, T_n, L_age, L_verbose, T_v, L_tag}
FormValues == {W_alice, W_7, W_false, W_minus7, T_dashdash, <<>>}

\* a process run with [--flag=v] and a process run with [--flag, v]
FormCalls ==
    {[shape |-> "Forms", args |-> <<k \o <<"=">> \o val>>, again |-> <<k, val>>,
      ignoreUnknown |-> g] : k \in FormKeys, val \in FormValues, g \in BOOLEAN}

\* the JSON object of a configuration file, or what an environment sets:
\* the fields it names and their values
Json(set) == [kind |-> "json", set |-> set]
Corrupt == [kind |-> "corrupt", set |-> <<>>]

AppJson == Json("Name" :> W_ann @@ "Age" :> 1)
EtcJson == Json("Name" :> W_bob)
OtherJson == Json("Name" :> W_oz)
EveEnv == Json("Name" :> W_eve)

\* the worlds a process may run in: the files that exist and the environment
Worlds ==
    { [files |-> {}, envs |-> <<>>],
      [files |-> {[path |-> F_app, content |-> AppJson],
                  [path |-> F_etc, content |-> EtcJson],
                  [path |-> F_other, content |-> OtherJson]},
       envs |-> <<>>],
      [files |-> {[path |-> F_app, content |-> AppJson],
                  [path |-> F_etc, content |-> EtcJson],
                  [path |-> F_other, content |-> OtherJson]},
       envs |-> <<EveEnv>>],
      [files |-> {[path |-> F_app, content |-> AppJson],
                  [path |-> F_other, content |-> Corrupt]},
       envs |-> <<>>] }

----------------------------------------------------------------------------
(* Parse, src/cortana.go 350-394, and the functions it calls.              *)

RECURSIVE Leaves(_)
\* the leaf fields of a record shape
Leaves(fields) ==
    IF fields = <<>> THEN <<>>
    ELSE IF Head(fields).kind = "struct"
         THEN Leaves(Head(fields).fields) \o Leaves(Tail(fields))
         ELSE <<Head(fields)>> \o Leaves(Tail(fields))

\* a freshly zeroed target record of a shape
ZeroRecord(fields) ==
    LET ls == Leaves(fields)
    IN [n \in {ls[k].Name : k \in 1..Len(ls)} |->
           Zero(ls[CHOOSE k \in 1..Len(ls) : ls[k].Name = n].kind)]

KindOf(fields, n) ==
    LET ls == Leaves(fields) IN ls[CHOOSE k \in 1..Len(ls) : ls[k].Name = n].kind

Err(kind, what) == [kind |-> kind, what |-> what]

\* json.Unmarshal of an object into the target: the fields it names are set
Decode(content, rec) ==
    [n \in DOMAIN rec |-> IF n \in DOMAIN content.set THEN content.set[n] ELSE rec[n]]

Exists(path) == \E f \in files : f.path = path

Content(path) == (CHOOSE f \in files : f.path = path).content

\* no default is applied
applyDefaultsNone(bs, rec, es) == [v |-> rec, errs |-> es, exited |-> FALSE]

RECURSIVE applyDefaults(_, _, _)
\* applyDefaultValues over the bindings bs: [v, errs, exited]
applyDefaults(bs, rec, es) ==
    IF bs = <<>> THEN [v |-> rec, errs |-> es, exited |-> FALSE]
    ELSE LET b == Head(bs)
             r == applyValue(b.kind, rec[b.name], b.defaultValue)
         IN IF b.required THEN applyDefaults(Tail(bs), rec, es)
            ELSE IF b.isFlag /\ IsSlice(b.kind) /\ b.defaultValue = <<"n", "i", "l">>
            THEN applyDefaults(Tail(bs), rec, es)
            ELSE IF ~r.ok /\ exitOnErr
            THEN [v |-> rec, errs |-> Append(es, Err("TypeError", b.long)), exited |-> TRUE]
            ELSE applyDefaults(Tail(bs), [rec EXCEPT ![b.name] = r.val],
                               IF r.ok THEN es ELSE Append(es, Err("TypeError", b.long)))

\* the bindings in the order applyDefaultValues visits them
DefaultOrder(pg) ==
    [k \in 1..(Len(pg.nonflags) + Len(pg.flags)) |->
        IF k <= Len(pg.nonflags)
        THEN [name |-> pg.nonflags[k].name, kind |-> pg.nonflags[k].kind,
              long |-> pg.nonflags[k].long, required |-> pg.nonflags[k].required,
              defaultValue |-> pg.nonflags[k].defaultValue, isFlag |-> FALSE]
        ELSE LET f == pg.flags[k - Len(pg.nonflags)]
             IN [name |-> f.name, kind |-> f.kind, long |-> f.long,
                 required |-> f.required, defaultValue |-> f.defaultValue,
                 isFlag |-> TRUE]]

\* collectFlags, lines 516-536: with a config-path flag configured, a source
\* with an empty path joins the configuration sources
collectFlags(cs) ==
    IF predefined.cfg.short # <<>> \/ predefined.cfg.long # <<>>
    THEN Append(cs, [path |-> <<>>, requireExist |-> FALSE])
    ELSE cs

\* the frame of a Parse call: pc is where it stands, phase the step it ran
\* last, decoded the configuration files the last overlay decoded, restarts
\* the times the loop of Parse recovered panic("restart"), array the
\* elements of the list the call was given, which c.ctx.args shares
IdleParse ==
    [pc |-> "idle", phase |-> "none", args |-> <<>>, i |-> 0, nonflags |-> <<>>,
     unknown |-> <<>>, decoded |-> <<>>, restarts |-> 0, array |-> <<>>]

\* lines 350-373: the options, the bindings, collectFlags, applyDefaultValues.
\* withArgs: the call is made with WithArgs(call.again)
ParseEnter(withArgs, rec) ==
    LET pg == parseCortanaTags(Shape(call.shape))
        d == applyDefaults(DefaultOrder(pg), rec, <<>>)
    IN /\ ctx' = IF withArgs THEN [ctx EXCEPT !.args = call.again] ELSE ctx
       /\ parsing' = pg
       /\ configs' = collectFlags(configs)
       /\ v' = d.v
       /\ errs' = d.errs
       /\ usage' = 0
       /\ ps' = [IdleParse EXCEPT !.pc = IF d.exited THEN "exited" ELSE "configs",
                                  !.phase = "defaults",
                                  !.array = IF withArgs THEN call.again ELSE ctx.args]

\* the command body calls Parse on a zeroed record, the arguments those the
\* resolution left in the context
ParseBegin ==
    /\ ps.pc = "idle"
    /\ ParseEnter(FALSE, ZeroRecord(Shape(call.shape)))
    /\ UNCHANGED <<searchVars, exitOnErr, predefined, envs, files, call, prev>>

\* Parse is called again, on a zeroed record, with WithArgs(call.again)
ParseAgain ==
    /\ ps.pc \in {"done", "aborted"}
    /\ prev = <<>>
    /\ prev' = <<[v |-> v, errs |-> errs, usage |-> usage, pc |-> ps.pc]>>
    /\ ParseEnter(TRUE, ZeroRecord(Shape(call.shape)))
    /\ UNCHANGED <<searchVars, exitOnErr, predefined, envs, files, call>>

RECURSIVE decodeConfigsReversed(_, _, _, _)
\* the sources decoded from the last one to the first
decodeConfigsReversed(cs, rec, es, read) ==
    IF cs = <<>> THEN [v |-> rec, errs |-> es, exited |-> FALSE, read |-> read]
    ELSE LET cfg == cs[Len(cs)]
             rest == SubSeq(cs, 1, Len(cs) - 1)
         IN IF Exists(cfg.path) /\ Content(cfg.path).kind = "json"
            THEN decodeConfigsReversed(rest, Decode(Content(cfg.path), rec), es,
                                       Append(read, cfg.path))
            ELSE decodeConfigsReversed(rest, rec, es, read)

RECURSIVE decodeConfigs(_, _, _, _)
\* unmarshalConfigs, lines 840-859, over the sources cs: [v, errs, exited,
\* read], read the paths of the files decoded
decodeConfigs(cs, rec, es, read) ==
    IF cs = <<>> THEN [v |-> rec, errs |-> es, exited |-> FALSE, read |-> read]
    ELSE LET cfg == Head(cs)
             e == Err("ConfigReadError", cfg.path)
         IN IF ~Exists(cfg.path)
            THEN IF ~cfg.requireExist THEN decodeConfigs(Tail(cs), rec, es, read)
                 ELSE IF exitOnErr
                 THEN [v |-> rec, errs |-> Append(es, e), exited |-> TRUE, read |-> read]
                 \* os.Open, ioutil.ReadAll of the nil file and Unmarshal of no
                 \* data fail one after the other
                 ELSE decodeConfigs(Tail(cs), rec, es \o <<e, e, e>>, read)
            ELSE IF Content(cfg.path).kind = "corrupt"
            THEN IF exitOnErr
                 THEN [v |-> rec, errs |-> Append(es, e), exited |-> TRUE, read |-> read]
                 ELSE decodeConfigs(Tail(cs), rec, Append(es, e), read)
            ELSE decodeConfigs(Tail(cs), Decode(Content(cfg.path), rec), es,
                               Append(read, cfg.path))

unmarshalConfigs ==
    /\ ps.pc = "configs"
    /\ LET d == decodeConfigs(configs, v, errs, <<>>)
       IN /\ v' = d.v
          /\ errs' = d.errs
          /\ ps' = [ps EXCEPT !.pc = IF d.exited THEN "exited" ELSE "envs",
                              !.phase = "configs", !.decoded = d.read]
    /\ UNCHANGED <<searchVars, ctx, exitOnErr, predefined, configs, envs, parsing, files,
                   call, usage, prev>>

RECURSIVE decodeEnvs(_, _, _)
\* unmarshalEnvs, lines 861-867
decodeEnvs(us, rec, es) ==
    IF us = <<>> THEN [v |-> rec, errs |-> es, exited |-> FALSE]
    ELSE IF Head(us).kind = "corrupt"
    THEN IF exitOnErr
         THEN [v |-> rec, errs |-> Append(es, Err("EnvError", <<>>)), exited |-> TRUE]
         ELSE decodeEnvs(Tail(us), rec, Append(es, Err("EnvError", <<>>)))
    ELSE decodeEnvs(Tail(us), Decode(Head(us), rec), es)

unmarshalEnvs ==
    /\ ps.pc = "envs"
    /\ LET d == decodeEnvs(envs, v, errs)
       IN /\ v' = d.v
          /\ errs' = d.errs
          /\ ps' = [ps EXCEPT !.pc = IF d.exited THEN "exited" ELSE "argsBegin",
                              !.phase = "envs"]
    /\ UNCHANGED <<searchVars, ctx, exitOnErr, predefined, configs, envs, parsing, files,
                   call, usage, prev>>

\* unmarshalArgs, lines 746-750: the locals of the walk
unmarshalArgsBegin ==
    /\ ps.pc = "argsBegin"
    /\ ps' = [ps EXCEPT !.pc = "args", !.phase = "args", !.args = ctx.args, !.i = 1,
                        !.nonflags = parsing.nonflags, !.unknown = <<>>]
    /\ UNCHANGED <<searchVars, ctx, exitOnErr, predefined, configs, envs, parsing, files,
                   call, v, errs, usage, prev>>

\* strings.Index(s, "=") > 0: the place of the first "=", if it is not the
\* first byte
\* no token is split at "="
EqAtNone(s) == 0

\* strings.Index(s, "="), counted from 1; 0 without "="
EqAt(s) ==
    IF \E k \in 1..Len(s) : s[k] = "="
    THEN CHOOSE k \in 1..Len(s) : s[k] = "=" /\ \A j \in 1..(k - 1) : s[j] # "="
    ELSE 0

\* the tokens all stay
RemoveNone(args, i, k) == args

\* args without the k tokens from place i on
Remove(args, i, k) == SubSeq(args, 1, i - 1) \o SubSeq(args, i + k, Len(args))

\* append(args[0:i], args[i+k:]...) has room in the array of args: the
\* tokens kept are written over its first elements, the others stay
Overwritten(array, kept) == kept \o SubSeq(array, Len(kept) + 1, Len(array))

\* what handling one token leaves: the frame, the record, the errors, the
\* sources and the context's args
Outcome(pc, i, nonflags, unknown, rec, es, cs, cargs) ==
    /\ ps' = [ps EXCEPT !.pc = pc, !.i = i, !.nonflags = nonflags, !.unknown = unknown]
    /\ v' = rec
    /\ errs' = es
    /\ configs' = cs
    /\ ctx' = [ctx EXCEPT !.args = cargs]

\* fatal(err) then the next token, or the end of the process
Fatal(e, i, nonflags, cs) ==
    Outcome(IF exitOnErr THEN "exited" ELSE "args", i, nonflags, ps.unknown, v,
            Append(errs, e), cs, ctx.args)

\* lines 801-835: the token names a declared flag, or is unknown.  es and cs
\* are the errors and the sources so far.
FlagToken(tok, key, value, emptyValue, es, cs) ==
    LET flag == buildArgsIndex(parsing.flags, key)
        n == Len(ps.args)
        next == ps.args[ps.i + 1]
        Apply(s, step) ==
            LET r == applyValue(flag.kind, v[flag.name], s)
            IN IF r.ok
               THEN Outcome("args", ps.i + step, ps.nonflags, ps.unknown,
                            [v EXCEPT ![flag.name] = r.val], es, cs, ctx.args)
               ELSE Outcome(IF exitOnErr THEN "exited" ELSE "args", ps.i + step,
                            ps.nonflags, ps.unknown, v,
                            Append(es, Err("TypeError", key)), cs, ctx.args)
        Missing ==
            Outcome(IF exitOnErr THEN "exited" ELSE "args", ps.i + 1, ps.nonflags,
                    ps.unknown, v, Append(es, Err("MissingValue", key)), cs, ctx.args)
    IN IF flag # NoFlag
       THEN IF emptyValue
            THEN Outcome("args", ps.i + 1, ps.nonflags, ps.unknown, v, es, cs, ctx.args)
            ELSE IF value # <<>> THEN Apply(value, 1)
            ELSE IF flag.kind = "bool" THEN Apply(<<"t", "r", "u", "e">>, 1)
            ELSE IF ps.i + 1 <= n
                 THEN IF next = <<>>          \* next[0] of an empty token
                      THEN Outcome("panicked", ps.i, ps.nonflags, ps.unknown, v, es, cs,
                                   ctx.args)
                      ELSE IF next[1] # "-" \/ next = <<"-", "-">> THEN Apply(next, 2)
                      ELSE Missing
                 ELSE Missing
       ELSE IF call.ignoreUnknown
            THEN Outcome("args", ps.i + 1, ps.nonflags, Append(ps.unknown, tok), v, es,
                         cs, ctx.args)
            ELSE Outcome(IF exitOnErr THEN "exited" ELSE "args", ps.i + 1, ps.nonflags,
                         ps.unknown, v, Append(es, Err("UnknownArgument", tok)), cs,
                         ctx.args)

\* a restart that walks the arguments again without decoding the sources
RestartAtArgs == "argsBegin"

\* panic("restart") is recovered by the loop of Parse, lines 375-393, which
\* runs unmarshalConfigs again
RestartAt == "configs"

\* lines 783-799: the config-path flag sets the path of the last source and
\* restarts; without a value it is reported and then looked up as a flag
ConfigToken(tok, key, value, emptyValue) ==
    LET n == Len(ps.args)
        next == ps.args[ps.i + 1]
        last == Len(configs)
        marked == [configs EXCEPT ![last].requireExist = TRUE]
        Restart(path, k) ==
            /\ ps' = [ps EXCEPT !.pc = RestartAt, !.restarts = @ + 1,
                                !.array = Overwritten(@, Remove(ps.args, ps.i, k))]
            /\ v' = v
            /\ errs' = errs
            /\ configs' = [marked EXCEPT ![last].path = path]
            /\ ctx' = [ctx EXCEPT !.args = Remove(ps.args, ps.i, k)]
        Missing == Append(errs, Err("MissingValue", key))
        Report ==
            IF exitOnErr
            THEN Outcome("exited", ps.i, ps.nonflags, ps.unknown, v, Missing, marked,
                         ctx.args)
            ELSE FlagToken(tok, key, value, emptyValue, Missing, marked)
    IN IF last = 0                            \* c.configs[len(c.configs)-1]
       THEN Outcome("panicked", ps.i, ps.nonflags, ps.unknown, v, errs, configs, ctx.args)
       ELSE IF value # <<>> THEN Restart(value, 1)
       ELSE IF ps.i + 1 <= n
            THEN IF next = <<>>               \* next[0] of an empty token
                 THEN Outcome("panicked", ps.i, ps.nonflags, ps.unknown, v, errs, marked,
                              ctx.args)
                 ELSE IF next[1] # "-" THEN Restart(next, 2)
                 ELSE Report
            ELSE Report

\* only the long name asks for the usage
IsHelpLongOnly(tok) == tok = predefined.help.long

\* lines 753: the token is the help flag's long or short name
IsHelp(tok) == tok = predefined.help.long \/ tok = predefined.help.short

\* one turn of the loop of unmarshalArgs, lines 751-836
unmarshalArg ==
    /\ ps.pc = "args"
    /\ ps.i <= Len(ps.args)
    /\ LET tok == ps.args[ps.i]
           eq == EqAt(tok)
           key == IF eq > 1 THEN SubSeq(tok, 1, eq - 1) ELSE tok
           value == IF eq > 1 THEN SubSeq(tok, eq + 1, Len(tok)) ELSE <<>>
           emptyValue == eq > 1 /\ value = <<>>
           nf == Head(ps.nonflags)
           r == applyValue(nf.kind, v[nf.name], tok)
           left == IF IsSlice(nf.kind) THEN ps.nonflags ELSE Tail(ps.nonflags)
       IN IF IsHelp(tok)
          THEN /\ usage' = usage + 1          \* onUsage, then panic("abort")
               /\ ps' = [ps EXCEPT !.pc = "aborted"]
               /\ UNCHANGED <<ctx, configs, v, errs>>
          ELSE /\ usage' = usage
               /\ IF ~IsFlagToken(tok) /\ ps.nonflags # <<>>
                  THEN IF r.ok
                       THEN Outcome("args", ps.i + 1, left, ps.unknown,
                                    [v EXCEPT ![nf.name] = r.val], errs, configs, ctx.args)
                       ELSE Fatal(Err("TypeError", tok), ps.i + 1, left, configs)
                  ELSE IF key = predefined.cfg.long \/ key = predefined.cfg.short
                  THEN ConfigToken(tok, key, value, emptyValue)
                  ELSE FlagToken(tok, key, value, emptyValue, errs, configs)
    /\ UNCHANGED <<searchVars, exitOnErr, predefined, envs, parsing, files, call, prev>>

\* the walk is over, the context keeps the arguments it had
unmarshalArgsEndKeep ==
    /\ ps.pc = "args"
    /\ ps.i > Len(ps.args)
    /\ ps' = [ps EXCEPT !.pc = "requires"]
    /\ UNCHANGED <<searchVars, ctx, exitOnErr, predefined, configs, envs, parsing, files,
                   call, v, errs, usage, prev>>

\* line 837: the walk is over, the context keeps the unknown tokens
unmarshalArgsEnd ==
    /\ ps.pc = "args"
    /\ ps.i > Len(ps.args)
    /\ ctx' = [ctx EXCEPT !.args = ps.unknown]
    /\ ps' = [ps EXCEPT !.pc = "requires"]
    /\ UNCHANGED <<searchVars, exitOnErr, predefined, configs, envs, parsing, files, call,
                   v, errs, usage, prev>>

RECURSIVE LeadingNonflags(_)
\* lines 700-706: the tokens before the first flag token
LeadingNonflags(args) ==
    IF args = <<>> \/ IsFlagToken(Head(args)) THEN 0 ELSE 1 + LeadingNonflags(Tail(args))

RECURSIVE missingNonflags(_)
\* lines 708-712
missingNonflags(nfs) ==
    IF nfs = <<>> THEN <<>>
    ELSE (IF Head(nfs).required /\ IsZero(Head(nfs).kind, v[Head(nfs).name])
          THEN <<Err("MissingRequired", Head(nfs).long)>> ELSE <<>>)
         \o missingNonflags(Tail(nfs))

\* no required flag is ever found missing
missingFlagsNone(fs, args) == <<>>

RECURSIVE missingFlags(_, _)
\* lines 721-741: a required flag absent from args and zero is reported
\* under its long name and under its short name
missingFlags(fs, args) ==
    IF fs = <<>> THEN <<>>
    ELSE LET f == Head(fs)
             present == \E k \in 1..Len(args) : args[k] = f.long \/ args[k] = f.short
         IN (IF ~f.required \/ present \/ ~IsZero(f.kind, v[f.name]) THEN <<>>
             ELSE (IF f.long # <<"-">> THEN <<Err("MissingRequired", f.long)>> ELSE <<>>)
                  \o (IF f.short # <<"-">> THEN <<Err("MissingRequired", f.short)>>
                      ELSE <<>>))
            \o missingFlags(Tail(fs), args)

\* checkRequires, lines 695-742
checkRequires ==
    /\ ps.pc = "requires"
    /\ LET args == ctx.args
           k == LeadingNonflags(args)
           found == (IF k < Len(parsing.nonflags)
                     THEN missingNonflags(SubSeq(parsing.nonflags, k + 1,
                                                 Len(parsing.nonflags)))
                     ELSE <<>>)
                    \o missingFlags(parsing.flags, args)
       IN IF found = <<>>
          THEN /\ errs' = errs
               /\ ps' = [ps EXCEPT !.pc = "done", !.phase = "requires"]
          ELSE IF exitOnErr
          THEN /\ errs' = Append(errs, Head(found))
               /\ ps' = [ps EXCEPT !.pc = "exited", !.phase = "requires"]
          ELSE /\ errs' = errs \o found
               /\ ps' = [ps EXCEPT !.pc = "done", !.phase = "requires"]
    /\ UNCHANGED <<searchVars, ctx, exitOnErr, predefined, configs, envs, parsing, files,
                   call, v, usage, prev>>

----------------------------------------------------------------------------
(* The specifications.                                                     *)

\* lines 99-103 and ConfFlag("--config", "-c", json)
Predefined ==
    [help |-> [long |-> L_help, short |-> T_h],
     cfg |-> [long |-> L_config, short |-> T_c]]

NoCall == [shape |-> "Say", args |-> <<>>, again |-> <<>>, ignoreUnknown |-> FALSE]

\* a commander after New(): nothing registered, nothing parsed
ParseIdle ==
    /\ exitOnErr = TRUE
    /\ predefined = Predefined
    /\ configs = <<>>
    /\ envs = <<>>
    /\ parsing = [flags |-> <<>>, nonflags |-> <<>>]
    /\ files = {}
    /\ call = NoCall
    /\ v = <<>>
    /\ ps = IdleParse
    /\ errs = <<>>
    /\ usage = 0
    /\ prev = <<>>

SearchIdle ==
    /\ commands = {}
    /\ seq = 0
    /\ sc = IdleFrame
    /\ out = NoOut
    /\ lc = IdleLaunch

\* registration and resolution
Init ==
    /\ SearchIdle
    /\ ctx = EmptyCtx
    /\ ParseIdle

Next ==
    \/ \E path \in PathPool : AddCommand(path, ProcOf(path))
    \/ \E args \in ArgVectors : SearchBegin(args)
    \/ StepCommand
    \/ StepCommandPrefix
    \/ StepOptionFlag
    \/ StepOptionArg
    \/ StepCommandArg
    \/ SearchEnd

Spec == Init /\ [][Next]_vars

\* argument vectors with two different flags
FlagTokenPool == {W_say, W_hello, T_n, T_v}
FlagVectors == SeqsUpTo(FlagTokenPool, MaxArgs)

\* registration, then the resolution of a vector with flags
FlagsNext ==
    \/ \E path \in PathPool : AddCommand(path, ProcOf(path))
    \/ \E args \in FlagVectors : SearchBegin(args)
    \/ StepCommand
    \/ StepCommandPrefix
    \/ StepOptionFlag
    \/ StepOptionArg
    \/ StepCommandArg
    \/ SearchEnd

FlagsSpec == Init /\ [][FlagsNext]_vars

Registered2 ==
    <<[path |-> F_app, requireExist |-> FALSE], [path |-> F_etc, requireExist |-> FALSE]>>

\* a command body about to call Parse: the commander was set up with
\* ExitOnError(b), ConfFlag, AddConfig(a), AddConfig(b) and the unmarshalers
\* of its world; the resolution left the command's arguments in the context
ParseInit ==
    /\ SearchIdle
    /\ \E c \in Calls, w \in Worlds, b \in BOOLEAN :
          /\ call = c
          /\ ctx = [name |-> P_say, args |-> c.args, longest |-> P_say]
          /\ exitOnErr = b
          /\ files = w.files
          /\ envs = w.envs
    /\ predefined = Predefined
    /\ configs = Registered2
    /\ parsing = [flags |-> <<>>, nonflags |-> <<>>]
    /\ v = <<>>
    /\ ps = IdleParse
    /\ errs = <<>>
    /\ usage = 0
    /\ prev = <<>>

ParseNext ==
    \/ ParseBegin
    \/ ParseAgain
    \/ unmarshalConfigs
    \/ unmarshalEnvs
    \/ unmarshalArgsBegin
    \/ unmarshalArg
    \/ unmarshalArgsEnd
    \/ checkRequires

ParseSpec == ParseInit /\ [][ParseNext]_vars

\* the calls whose argument lists are the scenarios
ScenarioCalls ==
    {[shape |-> n, args |-> a, again |-> a, ignoreUnknown |-> g] :
        n \in {"Say", "SayAll"}, a \in ScenarioArgs("Say"), g \in BOOLEAN}

ScenarioInit ==
    /\ SearchIdle
    /\ \E c \in ScenarioCalls, w \in Worlds, b \in BOOLEAN :
          /\ call = c
          /\ ctx = [name |-> P_say, args |-> c.args, longest |-> P_say]
          /\ exitOnErr = b
          /\ files = w.files
          /\ envs = w.envs
    /\ predefined = Predefined
    /\ configs = Registered2
    /\ parsing = [flags |-> <<>>, nonflags |-> <<>>]
    /\ v = <<>>
    /\ ps = IdleParse
    /\ errs = <<>>
    /\ usage = 0
    /\ prev = <<>>

\* a step inside a Parse call
ParseStep ==
    \/ unmarshalConfigs
    \/ unmarshalEnvs
    \/ unmarshalArgsBegin
    \/ unmarshalArg
    \/ unmarshalArgsEnd
    \/ checkRequires

\* Parse runs on one thread of control: a call that has begun and can take
\* its next step takes it; whether the command body calls Parse is left open
ParseFair == ScenarioInit /\ [][ParseNext]_vars /\ WF_vars(ParseStep)

\* paths that share prefixes byte-wise, one of them with the byte 0xFF
P_sayFF == W_say \o <<"xFF">>
RegPaths == {P_say, P_say_hello, P_sayFF, W_hi}
RegProcs == {"sayAnything", "sayHelloAnyone"}
RegPrefixes == {<<"s">>, W_say, P_say_hello, W_hi}

\* registrations and queries of the registry
RegNext ==
    \/ \E path \in RegPaths, proc \in RegProcs : AddCommand(path, proc)
    \/ \E prefix \in RegPrefixes : Complete(prefix)
    \/ Commands
    \/ \E path \in RegPaths : Lookup(path)

RegSpec == Init /\ [][RegNext]_vars

\* the integer kinds of Go, the values a destination holds before and the
\* tokens applied to it
IntegerKinds ==
    {"int", "int8", "int16", "int32", "int64", "uint", "uint8", "uint16", "uint32", "uint64"}
CoerceKinds == IntegerKinds \cup {"string", "bool", "[]int", "[]string"}
W_70000 == <<"7", "0", "0", "0", "0">>
W_32767 == <<"3", "2", "7", "6", "7">>
W_minus32769 == <<"-", "3", "2", "7", "6", "9">>
W_300 == <<"3", "0", "0">>
W_2to63 ==
    <<"9", "2", "2", "3", "3", "7", "2", "0", "3", "6", "8", "5", "4", "7", "7", "5",
      "8", "0", "8">>
CoerceTokens ==
    {<<>>, W_0, W_7, W_minus7, W_300, W_32767, W_70000, W_minus32769, W_2to63,
     <<"x">>, <<"1">>, W_false}

\* a value a destination of the kind can hold before the token is applied
Held(kind) ==
    IF kind \in IntegerKinds THEN {0, 18}
    ELSE IF kind = "bool" THEN {FALSE, TRUE}
    ELSE IF kind = "string" THEN {<<>>, W_tom}
    ELSE IF kind = "[]int" THEN {<<>>, <<18>>}
    ELSE {<<>>, <<W_tom>>}

\* applyValue(rv, s) on a destination of the kind that holds cur
Coerce(kind, cur, s) ==
    /\ sc.pc = "idle"
    /\ out' = [op |-> "applyValue", arg |-> <<kind>>,
               result |-> <<[cur |-> cur, s |-> s, r |-> applyValue(kind, cur, s)]>>]
    /\ UNCHANGED <<commands, seq, ctx, sc, lc, parseVars>>

CoerceNext == \E kind \in CoerceKinds : \E cur \in Held(kind), s \in CoerceTokens :
                  Coerce(kind, cur, s)

CoerceSpec == Init /\ [][CoerceNext]_vars

\* the registrations, names and remaining arguments of the launches
LaunchPaths == {P_say, P_say_hello, P_say_hello_cortana, P_hi_cortana}
AliasNames == {W_hi}
RestTokens == {W_cortana, T_n}
Rests == SeqsUpTo(RestTokens, MaxArgs)

\* the alias the last Launch was given
Launched == get(out.arg[1])

\* registrations, then a Launch of an alias with some remaining arguments,
\* then a Launch of the words of its definition with the same arguments
LaunchNext ==
    \/ \E path \in LaunchPaths : AddCommand(path, ProcOf(path))
    \/ \E name \in AliasNames, definition \in AliasDefs : Alias(name, definition)
    \/ \E name \in AliasNames, rest \in Rests :
          lc.n = 0 /\ get(name) # NoCmd /\ get(name).Alias /\ Launch(<<name>> \o rest)
    \/ lc.n = 1 /\ Launch(Fields(Definition(Launched.Proc)) \o Tail(out.arg))
    \/ StepCommand
    \/ StepCommandPrefix
    \/ StepOptionFlag
    \/ StepOptionArg
    \/ StepCommandArg
    \/ SearchEnd
    \/ LaunchProc

LaunchSpec == Init /\ [][LaunchNext]_vars

\* the two forms of one flag and value, each given to a process of its own
FormsInit ==
    /\ SearchIdle
    /\ \E c \in FormCalls, w \in Worlds, b \in BOOLEAN :
          /\ call = c
          /\ ctx = [name |-> P_say, args |-> c.args, longest |-> P_say]
          /\ exitOnErr = b
          /\ files = w.files
          /\ envs = w.envs
    /\ predefined = Predefined
    /\ configs = Registered2
    /\ parsing = [flags |-> <<>>, nonflags |-> <<>>]
    /\ v = <<>>
    /\ ps = IdleParse
    /\ errs = <<>>
    /\ usage = 0
    /\ prev = <<>>

\* the first process is over; a second one is set up alike and is about to
\* call Parse with the other form
FormsAgain ==
    /\ ps.pc \in {"done", "aborted", "exited", "panicked"}
    /\ prev = <<>>
    /\ prev' = <<[v |-> v, errs |-> errs, usage |-> usage, pc |-> ps.pc]>>
    /\ ctx' = [ctx EXCEPT !.args = call.again]
    /\ configs' = Registered2
    /\ parsing' = [flags |-> <<>>, nonflags |-> <<>>]
    /\ v' = <<>>
    /\ errs' = <<>>
    /\ usage' = 0
    /\ ps' = IdleParse
    /\ UNCHANGED <<searchVars, exitOnErr, predefined, envs, files, call>>

FormsNext ==
    \/ ParseBegin
    \/ FormsAgain
    \/ unmarshalConfigs
    \/ unmarshalEnvs
    \/ unmarshalArgsBegin
    \/ unmarshalArg
    \/ unmarshalArgsEnd
    \/ checkRequires

FormsSpec == FormsInit /\ [][FormsNext]_vars

----------------------------------------------------------------------------
(* Resolution of command paths.                                            *)

Words(path) == IF path = <<>> THEN <<>> ELSE Split(path, " ")

Registered(path) == \E x \in commands : x.Path = path

Resolved == sc.pc = "done"

ScenarioRegistry ==
    {x.Path : x \in commands} = {P_say, P_say_hello, P_say_hello_cortana}

\* C1: resolving exactly the words of a registered path returns the entry
\* registered at that path, with no arguments left, whether the path is a
\* word-wise prefix of other registered paths or extends them
C1_ExactPathResolves ==
    \A p \in PathPool :
        (Resolved /\ Registered(p) /\ sc.args = Words(p))
            => /\ sc.cmd = get(p)
               /\ ctx.name = p
               /\ ctx.args = <<>>

C1_Witness ==
    /\ Resolved
    /\ ScenarioRegistry
    /\ sc.args = <<W_say, W_hello>>
    /\ sc.cmd.Path = P_say_hello
    /\ ctx.args = <<>>

\* C2 as stated: with the registry {say hello cortana, say hello, say},
\* resolving [say, hi] returns no command
C2_Original ==
    (Resolved /\ ScenarioRegistry /\ sc.args = <<W_say, W_hi>>) => sc.cmd = NoCmd

\* C2: resolving [say, hi] returns the entry at "say" with hi as its
\* argument when "say" is registered; no command is returned exactly when
\* neither "say" nor the root path is registered
C2_UnknownWordIsArgument ==
    (Resolved /\ sc.args = <<W_say, W_hi>>)
        => /\ Registered(P_say) => (sc.cmd = get(P_say) /\ ctx.args = <<W_hi>>)
           /\ sc.cmd = NoCmd <=> (~Registered(P_say) /\ ~Registered(P_root))

C2_Witness ==
    /\ Resolved
    /\ ScenarioRegistry
    /\ sc.args = <<W_say, W_hi>>
    /\ sc.cmd.Path = P_say
    /\ ctx.args = <<W_hi>>

----------------------------------------------------------------------------
(* The two forms of a flag's value.                                        *)

Finished == ps.pc \in {"done", "aborted", "exited", "panicked"}

\* the second call, or the second process, is over
Second == prev # <<>> /\ Finished

First == prev[1]

FormKey == call.again[1]
FormValue == call.again[2]
FormFlag == buildArgsIndex(parsing.flags, FormKey)

----------------------------------------------------------------------------
(* Parse called twice by one command body.                                 *)

\* C4 as stated: the second of two Parse calls with the same argument
\* vector, each on a zeroed record, ends with the same record and the same
\* outcome as the first
C4_Original ==
    (Second /\ call.shape \in ShapeNames)
        => /\ First.v = v
           /\ First.errs = errs
           /\ First.pc = ps.pc
           /\ First.usage = usage

----------------------------------------------------------------------------
(* The config-path flag.                                                   *)

LastConfig == configs[Len(configs)]

\* the sources registered with AddConfig
RegisteredConfigs == SubSeq(configs, 1, Len(Registered2))

\* a Parse call has set the path of a source to the file the flag names
PathGiven == \E k \in 1..Len(configs) : configs[k].path = F_other

Readable(path) == Exists(path) /\ Content(path).kind = "json"

\* the overlay of the configuration files has run since the last restart
Overlaid == ps.pc \in {"envs", "argsBegin", "args", "requires", "done", "aborted"}

\* C5 as stated: --config other.json makes other.json the path of the
\* source registered with AddConfig
C5_Original ==
    (prev = <<>> /\ PathGiven)
        => \E k \in 1..Len(Registered2) : configs[k].path = F_other

\* C5: --config other.json sets the path of the source that Parse itself
\* appended for the flag (the last one) and marks it required; the sources
\* registered with AddConfig keep their paths and are still decoded.  The
\* file is decoded, after the registered ones, before the walk over the
\* remaining arguments starts again.
C5_FlagSetsAppendedSource ==
    /\ ps.pc # "idle" => RegisteredConfigs = Registered2
    /\ (prev = <<>> /\ PathGiven)
          => (Len(configs) = Len(Registered2) + 1
              /\ LastConfig = [path |-> F_other, requireExist |-> TRUE])
    /\ (Overlaid /\ LastConfig.path = F_other /\ Readable(F_other))
          => /\ ps.decoded # <<>>
             /\ ps.decoded[Len(ps.decoded)] = F_other
             /\ \A k \in 1..Len(Registered2) :
                    Readable(Registered2[k].path)
                        => \E j \in 1..(Len(ps.decoded) - 1) :
                               ps.decoded[j] = Registered2[k].path
    /\ (ps.pc = "envs" /\ LastConfig.path = F_other /\ Readable(F_other))
          => v["Name"] = W_oz

C5_Witness ==
    /\ prev = <<>>
    /\ call.args = <<L_config, F_other, T_n, W_alice>>
    /\ ps.pc = "args"
    /\ ps.args = <<T_n, W_alice>>
    /\ ps.i = 1
    /\ LastConfig.path = F_other
    /\ ps.decoded = <<F_app, F_etc, F_other>>
    /\ v["Name"] = W_oz

----------------------------------------------------------------------------
(* The record of the README: a flag --name/-n with default tom and a        *)
(* positional text.                                                         *)

\* the first Parse call of the command body is over
FirstOver == prev = <<>> /\ Finished

ReadmeArgs == <<T_n, W_alice, W_hello>>
ReadmeMoreArgs == <<T_n, W_alice, W_hello, W_world>>

\* C6 as stated: with a scalar text, Parse of [-n, alice, hello, world]
\* binds name=alice and text=hello, the word world being passed over
C6_Original ==
    (FirstOver /\ call.shape = "Say" /\ call.args = ReadmeMoreArgs)
        => /\ v["Name"] = W_alice
           /\ v["Text"] = W_hello
           /\ errs = <<>>
           /\ ps.pc = "done"

\* C6: Parse of [-n, alice, hello, world] with a scalar text binds
\* name=alice and text=hello and then reports world as an unknown argument
\* (with IgnoreUnknownArgs it succeeds and leaves world in the context's
\* args); with a sequence text it binds text=[hello, world] and succeeds;
\* Parse of [-n, alice, hello] binds name=alice and text=hello and succeeds
C6_ReadmeBinding ==
    FirstOver
        => /\ (call.shape = "Say" /\ call.args = ReadmeMoreArgs)
                 => /\ v["Name"] = W_alice
                    /\ v["Text"] = W_hello
                    /\ call.ignoreUnknown
                          => (errs = <<>> /\ ps.pc = "done" /\ ctx.args = <<W_world>>)
                    /\ ~call.ignoreUnknown
                          => /\ errs = <<Err("UnknownArgument", W_world)>>
                             /\ ps.pc = IF exitOnErr THEN "exited" ELSE "done"
           /\ (call.shape = "SayAll" /\ call.args = ReadmeMoreArgs)
                 => /\ v["Name"] = W_alice
                    /\ v["Text"] = <<W_hello, W_world>>
                    /\ errs = <<>>
                    /\ ps.pc = "done"
           /\ (call.shape = "Say" /\ call.args = ReadmeArgs)
                 => /\ v["Name"] = W_alice
                    /\ v["Text"] = W_hello
                    /\ errs = <<>>
                    /\ ps.pc = "done"
                    /\ ctx.args = <<>>

C6_Witness ==
    /\ FirstOver
    /\ call.shape = "Say"
    /\ call.args = ReadmeMoreArgs
    /\ ~call.ignoreUnknown
    /\ v["Name"] = W_alice
    /\ v["Text"] = W_hello
    /\ errs = <<Err("UnknownArgument", W_world)>>

----------------------------------------------------------------------------
(* Errors.                                                                 *)

\* C7 as stated: a Parse call reports at most one error, and once it has
\* reported one it is over, in both settings of ExitOnError
C7_Original == errs # <<>> => (Len(errs) = 1 /\ Finished)

\* the part of a token before its first "="
TokenKey(tok) == IF EqAt(tok) > 1 THEN SubSeq(tok, 1, EqAt(tok) - 1) ELSE tok

\* the flag is named by a token of the arguments of the call
Supplied(f) ==
    \E k \in 1..Len(call.args) : TokenKey(call.args[k]) \in {f.long, f.short}

\* no token was bound to the positional: the walk left it unconsumed
Unconsumed(nf) == \E k \in 1..Len(ps.nonflags) : ps.nonflags[k].name = nf.name

\* the requiredness check reported the binding: with ExitOnError(true) the
\* process ended on a MissingRequired error, otherwise the error names it
Reported(b) ==
    IF exitOnErr
    THEN ps.pc = "exited" /\ errs[Len(errs)].kind = "MissingRequired"
    ELSE \E k \in 1..Len(errs) : errs[k] = Err("MissingRequired", b.long)

\* C8: when Parse comes to its requiredness check, a required flag that no
\* token names and whose destination is zero after the overlays is reported
\* as MissingRequired, and so is a required positional that no token was
\* bound to
C8_MissingRequired ==
    ps.phase = "requires"
        => /\ \A k \in 1..Len(parsing.flags) :
                 LET f == parsing.flags[k]
                 IN (f.required /\ ~Supplied(f) /\ IsZero(f.kind, v[f.name]))
                        => Reported(f)
           /\ \A k \in 1..Len(parsing.nonflags) :
                 LET nf == parsing.nonflags[k]
                 IN (nf.required /\ Unconsumed(nf) /\ IsZero(nf.kind, v[nf.name]))
                        => Reported(nf)

C8_Witness ==
    /\ ps.phase = "requires"
    /\ call.shape = "Req"
    /\ call.args = <<W_alice>>
    /\ ~exitOnErr
    /\ v["Name"] = <<>>
    /\ v["Text"] = W_alice
    /\ errs = <<Err("MissingRequired", L_name), Err("MissingRequired", T_n)>>

----------------------------------------------------------------------------
(* The help flag.                                                          *)

HelpTokens == {L_help, T_h}

HelpGiven == \E k \in 1..Len(call.args) : call.args[k] \in HelpTokens

\* the walk stands at a help token
AtHelp == ps.pc = "args" /\ ps.i <= Len(ps.args) /\ ps.args[ps.i] \in HelpTokens

\* C9 as stated: a help token anywhere in the arguments makes Parse call the
\* usage callback exactly once and end without an error and without a
\* restart
C9_Original ==
    (FirstOver /\ HelpGiven)
        => /\ ps.pc = "aborted"
           /\ usage = 1
           /\ errs = <<>>
           /\ LastConfig.path = <<>>

\* C9: a help token that the walk reaches short-circuits Parse: the usage
\* callback is called once, the record, the errors and the sources stay as
\* they are, nothing follows in the call and the requiredness check never
\* runs.  A call whose arguments hold a help token ends either so or, with
\* ExitOnError(true), on the one error of an earlier token or source;
\* errors reported before the help token with ExitOnError(false) stand.
C9_HelpShortCircuits ==
    /\ [](Finished /\ HelpGiven
             => \/ /\ ps.pc = "aborted"
                   /\ usage = 1
                   /\ ps.phase # "requires"
                   /\ exitOnErr => errs = <<>>
                \/ /\ ps.pc = "exited"
                   /\ usage = 0
                   /\ ps.phase # "requires"
                   /\ exitOnErr
                   /\ Len(errs) = 1)
    /\ [][/\ AtHelp => /\ ps'.pc = "aborted"
                       /\ usage' = usage + 1
                       /\ UNCHANGED <<v, errs, configs, ctx>>
          /\ ps.pc = "aborted" => prev' # prev]_vars

C9_Witness ==
    /\ FirstOver
    /\ call.shape = "Req"
    /\ call.args = <<T_n, W_alice, T_h>>
    /\ ps.pc = "aborted"
    /\ usage = 1
    /\ errs = <<>>
    /\ v["Name"] = W_alice

----------------------------------------------------------------------------
(* Precedence of the sources of a value.                                   *)

Succeeded == FirstOver /\ ps.pc = "done" /\ errs = <<>>

\* the place of the last token that names the flag
LastNaming(f) ==
    CHOOSE k \in 1..Len(call.args) :
        /\ TokenKey(call.args[k]) \in {f.long, f.short}
        /\ \A j \in (k + 1)..Len(call.args) : TokenKey(call.args[j]) \notin {f.long, f.short}

\* the value token the command line gives the flag
ArgToken(f) ==
    LET k == LastNaming(f)
        tok == call.args[k]
    IN IF EqAt(tok) > 1 THEN SubSeq(tok, EqAt(tok) + 1, Len(tok)) ELSE call.args[k + 1]

Coerced(f, s) == applyValue(f.kind, Zero(f.kind), s).val

EnvSets(f) == \E k \in 1..Len(envs) : f.name \in DOMAIN envs[k].set

EnvValue(f) ==
    envs[CHOOSE k \in 1..Len(envs) :
             /\ f.name \in DOMAIN envs[k].set
             /\ \A j \in (k + 1)..Len(envs) : f.name \notin DOMAIN envs[j].set].set[f.name]

\* the source is a readable file that names the field
ConfigSets(k, f) ==
    Readable(configs[k].path) /\ f.name \in DOMAIN Content(configs[k].path).set

ConfigValue(f) ==
    Content(configs[CHOOSE k \in 1..Len(configs) :
                        /\ ConfigSets(k, f)
                        /\ \A j \in (k + 1)..Len(configs) : ~ConfigSets(j, f)].path).set[f.name]

\* the value of the highest-priority source that sets the flag's field
Expected(f) ==
    IF Supplied(f) THEN Coerced(f, ArgToken(f))
    ELSE IF EnvSets(f) THEN EnvValue(f)
    ELSE IF \E k \in 1..Len(configs) : ConfigSets(k, f) THEN ConfigValue(f)
    ELSE IF f.required THEN Zero(f.kind)
    ELSE Coerced(f, f.defaultValue)

\* C10: after a successful Parse a scalar field holds the value of its
\* highest-priority source: command-line argument, then environment
\* unmarshaler, then configuration file (a later source over an earlier
\* one), then declared default, wherever the field's flag stands relative
\* to a config-path flag
C10_Precedence ==
    Succeeded
        => \A k \in 1..Len(parsing.flags) :
               LET f == parsing.flags[k]
               IN f.kind \in {"string", "int"} => v[f.name] = Expected(f)

\* the flag stands before the config-path flag whose file sets the field
C10_Witness ==
    /\ Succeeded
    /\ call.args = <<T_n, W_alice, L_config, F_other>>
    /\ envs = <<EveEnv>>
    /\ ps.decoded = <<F_app, F_etc, F_other>>
    /\ v["Name"] = W_alice

----------------------------------------------------------------------------
(* The registry.                                                           *)

\* the sequence lists exactly the entries whose path starts with the prefix,
\* each once, in ascending order of path
ExactlyPrefixed(result, prefix) ==
    /\ {result[k] : k \in 1..Len(result)} = {x \in commands : HasPrefix(x.Path, prefix)}
    /\ \A i, j \in 1..Len(result) : i < j => StrLess(result[i].Path, result[j].Path)

\* C11 as stated: for any registry and any prefix p, Complete(p) returns
\* exactly the entries whose path starts with p, each once, in ascending
\* order of path, and Commands() returns every entry in that order
C11_Original ==
    [][(out' # out /\ out'.op \in {"Complete", "Commands"})
           => ExactlyPrefixed(out'.result, out'.arg)]_vars

\* the entry a registration of path with proc makes when seq is n
Entry(path, proc, n) ==
    [Path |-> path, Proc |-> proc, Brief |-> proc, Alias |-> FALSE, order |-> n]

\* C12: the registry holds at most one entry per path; a registration of a
\* path makes the exact lookup of that path return the entry just
\* registered, with its action and brief, whether or not the path was
\* registered before, and leaves the entries of the other paths as they are
C12_LastRegistrationWins ==
    /\ [](\A x, y \in commands : x.Path = y.Path => x = y)
    /\ [][\A p \in RegPaths, a \in RegProcs :
             AddCommand(p, a)
                 => /\ {x \in commands' : x.Path = p} = {Entry(p, a, seq)}
                    /\ {x \in commands' : x.Path # p} = {x \in commands : x.Path # p}]_vars
    /\ [][(out' # out /\ out'.op = "get")
             => out'.result = IF \E x \in commands : x.Path = out'.arg
                              THEN <<CHOOSE x \in commands : x.Path = out'.arg>>
                              ELSE <<>>]_vars

\* say was registered twice; the lookup returns the second registration
C12_Witness ==
    /\ seq = 2
    /\ commands = {Entry(P_say, "sayHelloAnyone", 1)}
    /\ out = [op |-> "get", arg |-> P_say, result |-> <<Entry(P_say, "sayHelloAnyone", 1)>>]

----------------------------------------------------------------------------
(* Defaults.                                                               *)

\* C13: after Parse, however it ends, a flag that is not required, declares
\* a default, is named by no token and is set by no configuration file and
\* no environment unmarshaler holds its declared default coerced to the
\* type of its field
C13_DefaultStands ==
    Finished
        => \A k \in 1..Len(parsing.flags) :
               LET f == parsing.flags[k]
               IN (/\ ~f.required
                   /\ f.defaultValue # <<>>
                   /\ ~Supplied(f)
                   /\ ~EnvSets(f)
                   /\ ~\E j \in 1..Len(configs) : ConfigSets(j, f))
                      => v[f.name] = Coerced(f, f.defaultValue)

C13_Witness ==
    /\ FirstOver
    /\ call.shape = "Req"
    /\ call.args = <<T_n, W_alice, W_alice>>
    /\ files = {}
    /\ ps.pc = "done"
    /\ errs = <<>>
    /\ v["Age"] = 18
    /\ v["Name"] = W_alice

----------------------------------------------------------------------------
(* Unknown arguments.                                                      *)

IsConfigKey(key) == key \in {predefined.cfg.long, predefined.cfg.short}

\* the token can be the value of the flag before it
IsValueToken(tok) == tok # <<>> /\ (tok[1] # "-" \/ tok = T_dashdash)

RECURSIVE Unrecognised(_, _)
\* the tokens of args that match no flag and no remaining positional, nfs
\* the positionals not yet bound: a non-flag token binds the next
\* positional (a sequence positional binds them all), a flag takes the
\* token after it unless it is boolean or carries its value after "="
Unrecognised(args, nfs) ==
    IF args = <<>> \/ IsHelp(Head(args)) THEN <<>>
    ELSE LET tok == Head(args)
             key == TokenKey(tok)
             flag == buildArgsIndex(parsing.flags, key)
             takesNext == /\ EqAt(tok) <= 1
                          /\ Len(args) > 1
                          /\ IF IsConfigKey(key) THEN args[2] # <<>> /\ args[2][1] # "-"
                             ELSE flag.kind # "bool" /\ IsValueToken(args[2])
             rest == IF takesNext THEN Tail(Tail(args)) ELSE Tail(args)
         IN IF ~IsFlagToken(tok) /\ nfs # <<>>
            THEN Unrecognised(Tail(args), IF IsSlice(Head(nfs).kind) THEN nfs ELSE Tail(nfs))
            ELSE IF IsConfigKey(key) \/ flag # NoFlag THEN Unrecognised(rest, nfs)
            ELSE <<tok>> \o Unrecognised(Tail(args), nfs)

UnknownTokens == Unrecognised(call.args, parsing.nonflags)

\* the errors that report an unknown argument
UnknownErrors == SelectSeq(errs, LAMBDA e : e.kind = "UnknownArgument")

\* a config-path flag without a value was reported
ConfigValueMissing ==
    \E k \in 1..Len(errs) : errs[k].kind = "MissingValue" /\ IsConfigKey(errs[k].what)

----------------------------------------------------------------------------
(* Aliases.                                                                *)

\* some registered path starts with the name followed by a space
Shadowed(name) == \E e \in commands : HasPrefix(e.Path, name \o <<" ">>)

\* the Launch of the words of the definition has just ended, the Launch of
\* the alias ended before it
ExpansionOver == lc.n = 1 /\ lc'.n = 2

----------------------------------------------------------------------------
(* The token walk of SearchCommand, state by state.                        *)

\* the states whose case looks the extended path up
Extending == {"StateCommand", "StateCommandPrefix", "StateOptionFlag", "StateOptionArg"}

\* the walk is at a non-flag token in one of the states sts
AtWord(sts) ==
    /\ sc.pc = "run"
    /\ sc.i <= Len(sc.args)
    /\ sc.st \in sts
    /\ ~IsFlagToken(Arg)

\* C16: in every state in which path extension is attempted, a non-flag
\* token whose extended prefix matches no registered path is appended to
\* the args if a command is committed, and otherwise resolution fails and
\* returns no command.
C16_Original ==
    [][(AtWord(Extending) /\ scan(Extended) = <<>>)
          => IF sc.cmd # NoCmd
             THEN sc'.cmdArgs = Append(sc.cmdArgs, Arg)
             ELSE sc'.pc = "done" /\ sc'.cmd = NoCmd /\ ctx' = EmptyCtx]_vars

\* the extended prefix matches deeper registered paths only
DeeperOnly == scan(Extended) # <<>> /\ scan(Extended)[1].Path # Extended

\* the step commits a command
Commits == sc'.cmd # sc.cmd \/ (scan(Extended) # <<>> /\ scan(Extended)[1].Path = Extended)

\* C17: every token that extends the path-so-far to a prefix matching only
\* deeper registered paths is buffered as a maybe-argument; buffered tokens
\* are discarded only when a later token commits a command, and at end of
\* input the still-buffered tokens are in the context args after the
\* pending arguments, in input order.
C17_Original ==
    /\ [][(AtWord(Extending) /\ DeeperOnly)
             => sc'.maybeArgs = Append(sc.maybeArgs, Arg)]_vars
    /\ [][(sc.pc = "run" /\ sc.i <= Len(sc.args) /\ ~Commits)
             => SubSeq(sc'.maybeArgs, 1, Len(sc.maybeArgs)) = sc.maybeArgs]_vars
    /\ [][(sc.pc = "run" /\ sc.i > Len(sc.args))
             => ctx'.args = sc.cmdArgs \o sc.maybeArgs]_vars

\* C18 as stated: after a flag, after a flag value and after a positional
\* argument alike a non-flag token whose extended path is registered
\* commits the deeper command.
C18_Original ==
    [][(AtWord({"StateOptionFlag", "StateOptionArg", "StateCommandArg"})
          /\ get(Extended) # NoCmd)
          => sc'.cmd = get(Extended) /\ sc'.path = Extended]_vars

\* C18: after a flag and after a flag value a non-flag token is first tried
\* as a continuation of the command path and commits the deeper command
\* when the extended path is registered, the arguments seen so far kept;
\* after a positional argument (StateCommandArg) no path is looked up, the
\* token is one more argument of the command committed before.
C18_ContinuationAfterFlags ==
    /\ [][(AtWord({"StateOptionFlag", "StateOptionArg"}) /\ get(Extended) # NoCmd)
             => /\ sc'.cmd = get(Extended)
                /\ sc'.path = Extended
                /\ sc'.st = "StateCommand"
                /\ sc'.maybeArgs = <<>>
                /\ sc'.cmdArgs = sc.cmdArgs]_vars
    /\ [][AtWord({"StateCommandArg"})
             => /\ sc'.cmdArgs = Append(sc.cmdArgs, Arg)
                /\ sc'.cmd = sc.cmd
                /\ sc'.path = sc.path
                /\ sc'.st = "StateCommandArg"]_vars

C18_Witness ==
    /\ sc.args = <<T_n, W_hi, W_say>>
    /\ sc.i = 4
    /\ sc.st = "StateCommand"
    /\ sc.cmd = get(P_say)
    /\ sc.cmd # NoCmd
    /\ sc.cmdArgs = <<T_n, W_hi>>

----------------------------------------------------------------------------
(* Requiredness against the tokens supplied.                               *)

\* the requiredness check has run and the flag's name was reported by it
ReportedMissing(b) ==
    /\ ps.phase = "requires"
    /\ \E k \in 1..Len(errs) :
          errs[k].kind = "MissingRequired" /\ errs[k].what \in {b.long, b.short}

\* the long or short name is among the raw tokens given to Parse
Named(f) == \E k \in 1..Len(call.args) : call.args[k] \in {f.long, f.short}

\* C19: MissingRequired is reported for a required flag only if its name is
\* absent from the raw tokens given to Parse and its value is zero, so a
\* required flag supplied with a zero value is not reported missing.
C19_Original ==
    \A k \in 1..Len(parsing.flags) :
        LET f == parsing.flags[k]
        IN (f.required /\ ReportedMissing(f))
               => (~Named(f) /\ IsZero(f.kind, v[f.name]))

\* the non-flag tokens supplied, the values of flags apart
RECURSIVE Positionals(_)
Positionals(args) ==
    IF args = <<>> THEN 0
    ELSE IF ~IsFlagToken(Head(args)) THEN 1 + Positionals(Tail(args))
    ELSE LET flag == buildArgsIndex(parsing.flags, TokenKey(Head(args)))
             takesNext == /\ flag # NoFlag
                          /\ flag.kind # "bool"
                          /\ EqAt(Head(args)) <= 1
                          /\ Len(args) > 1
                          /\ IsValueToken(args[2])
         IN Positionals(IF takesNext THEN Tail(Tail(args)) ELSE Tail(args))

\* C20: with k positional tokens supplied, only the required positionals at
\* declaration index >= k can be reported missing: one that received a token
\* is satisfied whatever the token coerces to.
C20_Original ==
    \A j \in 1..Len(parsing.nonflags) :
        (parsing.nonflags[j].required /\ ReportedMissing(parsing.nonflags[j]))
            => j - 1 >= Positionals(call.args)

----------------------------------------------------------------------------
(* The restart loop of Parse.                                              *)

RECURSIVE ConfigTokens(_)
\* the config-path flag tokens of an argument list
ConfigTokens(args) ==
    IF args = <<>> THEN 0
    ELSE (IF IsConfigKey(TokenKey(Head(args))) THEN 1 ELSE 0) + ConfigTokens(Tail(args))

\* the loop of Parse recovers panic("restart")
Restarts == ps.pc = "args" /\ ps'.pc = RestartAt

\* the call ended in success, in the abort of the help flag or in a
\* reported error
EndedAsDescribed ==
    \/ ps.pc = "done"
    \/ ps.pc = "aborted" /\ HelpGiven
    \/ ps.pc = "exited" /\ errs # <<>>

\* C21: Parse terminates for every finite argument list: each restart removes
\* the config-path flag token (and its value) from the context's argument
\* list, so one call restarts at most as often as the list has config-path
\* flag tokens, and the loop ends in success, help-abort or a reported error.
C21_Original ==
    /\ [][Restarts => /\ ConfigTokens(ctx'.args) = ConfigTokens(ctx.args) - 1
                      /\ Len(ctx'.args) < Len(ctx.args)]_vars
    /\ [](ps.restarts <= ConfigTokens(call.args))
    /\ [](Finished => EndedAsDescribed)
    /\ (ps.pc # "idle") ~> Finished

----------------------------------------------------------------------------
(* The order of the phases of Parse.                                       *)

\* the token the argument overlay stands at
AtToken == ps.args[ps.i]

\* the moves from one place of a Parse call to the next: to the left of ":>"
\* where the call stands, to the right where it may stand next, the end of
\* the process on an error apart
PhaseEdges ==
    "idle" :> {"configs"} @@ "done" :> {"configs"} @@ "aborted" :> {"configs"}
    @@ "configs" :> {"envs"} @@ "envs" :> {"argsBegin"} @@ "argsBegin" :> {"args"}
    @@ "args" :> {"args", "configs", "aborted", "requires", "panicked"}
    @@ "requires" :> {"done"} @@ "exited" :> {} @@ "panicked" :> {}

\* C22: the phases of a Parse call run in the order extract, defaults, then
\* passes of config overlay, environment overlay, argument overlay; the
\* requiredness check runs only after an argument pass that came to its end
\* without restart or abort; the only way back leads from the argument
\* overlay to the config overlay, at a config-path flag, and leaves the
\* values as they are (defaults are not applied again); the call is aborted
\* only at a help flag.
C22_PhaseOrder ==
    /\ [][ps'.pc # ps.pc
             => /\ ps'.pc \in PhaseEdges[ps.pc] \cup {"exited"}
                /\ ps.pc \in {"idle", "done", "aborted"}
                      => ps'.phase = "defaults" /\ ps'.restarts = 0
                /\ ps'.pc = "requires"
                      => ps.pc = "args" /\ ps.i > Len(ps.args) /\ ps'.phase = "args"
                /\ ps'.pc = "aborted" => ps.pc = "args" /\ IsHelp(AtToken)
                /\ (ps.pc = "args" /\ ps'.pc = "configs")
                      => /\ IsConfigKey(TokenKey(AtToken))
                         /\ v' = v
                         /\ parsing' = parsing
                         /\ ps'.restarts = ps.restarts + 1]_vars
    /\ [](ps.phase = "requires" => ps.pc \in {"done", "exited"})
    /\ [](ps.phase = "defaults" => ps.pc \in {"configs", "exited"})

C22_Witness ==
    /\ FirstOver
    /\ call.shape = "Say"
    /\ call.args = <<T_n, W_alice, L_config, F_other>>
    /\ files = {}
    /\ ~exitOnErr
    /\ ps.restarts = 1
    /\ ps.phase = "requires"
    /\ ps.pc = "done"
    /\ v["Name"] = W_alice

----------------------------------------------------------------------------
(* Exact matches.                                                          *)

\* the walk handles a token
Walking == sc.pc = "run" /\ sc.i <= Len(sc.args)

\* C23: a token commits a command only when a registered path equals the
\* extended path-so-far exactly, and then that entry is committed whatever
\* deeper entries the same scan holds; a prefix that matches only deeper
\* paths never commits a command.
C23_ExactMatchCommits ==
    /\ [][(Walking /\ sc'.cmd # sc.cmd)
             => /\ ~IsFlagToken(Arg)
                /\ get(Extended) # NoCmd
                /\ sc'.cmd = get(Extended)
                /\ sc'.cmd.Path = sc'.path]_vars
    /\ [][(AtWord(Extending) /\ get(Extended) # NoCmd)
             => sc'.cmd = get(Extended) /\ sc'.path = Extended]_vars
    /\ [][(AtWord(Extending) /\ DeeperOnly) => sc'.cmd = sc.cmd]_vars

C23_Witness ==
    /\ sc.pc = "run"
    /\ sc.args = <<W_say, W_hello>>
    /\ sc.i = 2
    /\ sc.cmd = get(P_say)
    /\ sc.cmd # NoCmd
    /\ get(P_say_hello) # NoCmd
    /\ get(P_say_hello_cortana) # NoCmd

----------------------------------------------------------------------------
(* Flag tokens in SearchCommand.                                           *)

\* the flag tokens of a list, in its order
FlagsOf(args) == SelectSeq(args, IsFlagToken)

\* SearchCommand consumed all its input
RanToEnd == sc.pc = "done" /\ sc.i > Len(sc.args)

\* C24: in every state a token starting with "-" is appended to the pending
\* arguments, the path-so-far, the committed command and the buffered tokens
\* left as they are, whatever is registered; when SearchCommand ran to the
\* end of input the flag tokens of the input are all in the context's args,
\* in their order.
C24_FlagsKept ==
    /\ [][(Walking /\ IsFlagToken(Arg))
             => /\ sc'.cmdArgs = Append(sc.cmdArgs, Arg)
                /\ sc'.path = sc.path
                /\ sc'.cmd = sc.cmd
                /\ sc'.maybeArgs = sc.maybeArgs
                /\ sc'.st = "StateOptionFlag"
                /\ sc'.i = sc.i + 1]_vars
    /\ [](RanToEnd => FlagsOf(ctx.args) = FlagsOf(sc.args))

C24_Witness ==
    /\ RanToEnd
    /\ sc.args = <<T_v, W_say, T_n>>
    /\ sc.cmd = get(P_say)
    /\ sc.cmd # NoCmd
    /\ ctx.args = <<T_v, T_n>>

----------------------------------------------------------------------------
(* The context SearchCommand leaves.                                       *)

\* C25: after SearchCommand consumed all its input the context's name is
\* the committed command's path, or the path-so-far when no command is
\* committed; the longest path is the furthest extended prefix whose scan
\* was not empty; a non-empty longest path has a non-empty scan; the name is
\* a string prefix of the longest path.
C25_ContextPaths ==
    /\ [][(Walking /\ sc'.path # sc.path)
             => /\ AtWord(Extending)
                /\ sc'.path = Extended
                /\ scan(Extended) # <<>>]_vars
    /\ [][(AtWord(Extending) /\ scan(Extended) # <<>>) => sc'.path = Extended]_vars
    /\ [](RanToEnd
             => /\ ctx.name = IF sc.cmd # NoCmd THEN sc.cmd.Path ELSE sc.path
                /\ ctx.longest = sc.path
                /\ ctx.longest # <<>> => scan(ctx.longest) # <<>>
                /\ HasPrefix(ctx.longest, ctx.name))

C25_Witness ==
    /\ RanToEnd
    /\ sc.args = <<W_say, W_hello>>
    /\ get(P_say) # NoCmd
    /\ get(P_say_hello) = NoCmd
    /\ ctx.name = P_say
    /\ ctx.longest = P_say_hello
    /\ ctx.args = <<W_hello>>

----------------------------------------------------------------------------
(* The value of a flag.                                                    *)

\* the argument overlay stands at a declared non-boolean flag without an
\* inline value
AtBareFlag ==
    /\ ps.pc = "args"
    /\ ps.i <= Len(ps.args)
    /\ IsFlagToken(AtToken)
    /\ ~IsHelp(AtToken)
    /\ EqAt(AtToken) = 0
    /\ buildArgsIndex(parsing.flags, AtToken) # NoFlag
    /\ buildArgsIndex(parsing.flags, AtToken).kind # "bool"

\* the flag is the last token, or the token after it starts with "-"
NoValueAhead == ps.i = Len(ps.args) \/ IsFlagToken(ps.args[ps.i + 1])

\* C26: a non-boolean flag without an inline value reports MissingValue
\* exactly when it is the last token or the token after it starts with "-";
\* otherwise it consumes the next token as its value, and the walk goes on
\* behind that token.
C26_Original ==
    [][AtBareFlag
          => IF NoValueAhead
             THEN /\ errs' = Append(errs, Err("MissingValue", AtToken))
                  /\ v' = v
             ELSE /\ \A k \in 1..Len(errs') : errs'[k].kind # "MissingValue"
                  /\ ps'.i = ps.i + 2
                  /\ ps'.nonflags = ps.nonflags
                  /\ LET flag == buildArgsIndex(parsing.flags, AtToken)
                         r == applyValue(flag.kind, v[flag.name], ps.args[ps.i + 1])
                     IN IF r.ok THEN v' = [v EXCEPT ![flag.name] = r.val] /\ errs' = errs
                        ELSE v' = v /\ errs' = Append(errs, Err("TypeError", AtToken))]_vars

----------------------------------------------------------------------------
(* The path of a configuration source.                                     *)

\* the paths of the sources, in their order
Paths(cs) == [k \in 1..Len(cs) |-> cs[k].path]

\* a step inside a Parse call
InCall == ps.pc \notin {"idle", "done", "aborted"}

\* C27 as stated: during one Parse call the path of a configuration source
\* is mutated at most once, only at a config-path flag of the argument
\* list, and each mutation is followed by exactly one restart.
C27_Original ==
    /\ [][(InCall /\ Paths(configs') # Paths(configs))
             => /\ IsConfigKey(TokenKey(AtToken))
                /\ Restarts
                /\ ps'.restarts = ps.restarts + 1]_vars
    /\ [][Restarts => ps'.restarts <= 1]_vars

\* C27: during one Parse call the paths of the sources are mutated only at
\* a config-path flag of the argument list that has a value, and then the
\* path of the last source alone; each mutation is followed by exactly one
\* restart and each restart follows a mutation, so the path is set once for
\* every config-path flag of the list, the last one standing.
C27_PathSetPerFlag ==
    /\ [][(InCall /\ Paths(configs') # Paths(configs))
             => /\ IsConfigKey(TokenKey(AtToken))
                /\ Restarts
                /\ ps'.restarts = ps.restarts + 1]_vars
    /\ [][Restarts
             => /\ IsConfigKey(TokenKey(AtToken))
                /\ Len(configs') = Len(configs)
                /\ \A k \in 1..(Len(configs) - 1) : configs'[k] = configs[k]
                /\ configs'[Len(configs)].path
                      \in {SubSeq(AtToken, EqAt(AtToken) + 1, Len(AtToken)),
                           ps.args[ps.i + 1]}
                /\ configs'[Len(configs)].path # <<>>
                /\ ps'.restarts = ps.restarts + 1]_vars
    /\ [](ps.restarts <= ConfigTokens(call.args))

C27_Witness ==
    /\ FirstOver
    /\ call.args = <<L_config, F_other, L_config, F_app>>
    /\ ps.pc = "done"
    /\ ps.restarts = 2
    /\ configs[Len(configs)].path = F_app

----------------------------------------------------------------------------
(* Coercion of a token.                                                    *)

\* a token was applied to a destination
Applied == out.op = "applyValue"
Kind == out.arg[1]
Before == out.result[1].cur
Token == out.result[1].s
After == out.result[1].r

\* the token is a base-10 integer: an optional sign, then digits
IsInteger(s) ==
    LET body == IF s # <<>> /\ s[1] \in {"-", "+"} THEN Tail(s) ELSE s
    IN body # <<>> /\ \A k \in 1..Len(body) : IsDigit(body[k])

\* the number a base-10 integer token of less than ten digits stands for
Number(s) ==
    IF s[1] = "-" THEN 0 - Decimal(Tail(s))
    ELSE IF s[1] = "+" THEN Decimal(Tail(s)) ELSE Decimal(s)

\* C28: coercing a base-10 integer token to an integer destination either
\* stores exactly the number of the token or reports an error and leaves
\* the destination as it was; a number is never stored truncated, and no
\* integer width is skipped without an error.
C28_Original ==
    (Applied /\ Kind \in IntegerKinds /\ IsInteger(Token))
        => IF After.ok THEN Len(Token) < 10 /\ After.val = Number(Token)
           ELSE After.val = Before

----------------------------------------------------------------------------
(* Positionals in declaration order.                                       *)

BindTokens == {T_n, W_alice, W_7, L_config}

\* a command body that parses into a record with several positionals
BindCalls ==
    {[shape |-> n, args |-> a, again |-> a, ignoreUnknown |-> g] :
        n \in {"Pair", "Tail"}, a \in SeqsUpTo(BindTokens, MaxParseArgs),
        g \in BOOLEAN}

BindInit ==
    /\ SearchIdle
    /\ \E c \in BindCalls, w \in Worlds, b \in BOOLEAN :
          /\ call = c
          /\ ctx = [name |-> P_say, args |-> c.args, longest |-> P_say]
          /\ exitOnErr = b
          /\ files = w.files
          /\ envs = w.envs
    /\ predefined = Predefined
    /\ configs = Registered2
    /\ parsing = [flags |-> <<>>, nonflags |-> <<>>]
    /\ v = <<>>
    /\ ps = IdleParse
    /\ errs = <<>>
    /\ usage = 0
    /\ prev = <<>>

BindSpec == BindInit /\ [][ParseNext]_vars

SequenceKinds == {"[]string", "[]int"}

\* the argument overlay stands at a non-flag token
AtPositionalToken ==
    /\ ps.pc = "args"
    /\ ps.i <= Len(ps.args)
    /\ ~IsFlagToken(AtToken)
    /\ ~IsHelp(AtToken)

\* the place, in declaration order, of the positional the n-th non-flag
\* token goes to: n itself, or the first sequence-typed positional if that
\* one comes before
Slot(n) ==
    LET seqs == {k \in 1..Len(parsing.nonflags) :
                    k <= n /\ parsing.nonflags[k].kind \in SequenceKinds}
    IN IF seqs = {} THEN n ELSE CHOOSE k \in seqs : \A m \in seqs : k <= m

\* C29: during argument binding the i-th non-flag token that is not taken
\* as a flag's value is applied to the i-th declared positional; once a
\* sequence-typed positional is reached it receives every later such token
\* and the positionals declared after it receive none; a token beyond the
\* declared positionals changes no destination.
C29_PositionalOrder ==
    [][AtPositionalToken
          => LET n == Positionals(SubSeq(ps.args, 1, ps.i - 1)) + 1
                 k == Slot(n)
             IN IF k <= Len(parsing.nonflags)
                THEN LET nf == parsing.nonflags[k]
                         r == applyValue(nf.kind, v[nf.name], AtToken)
                     IN /\ v' = [v EXCEPT ![nf.name] = r.val]
                        /\ r.ok => errs' = errs
                        /\ ~r.ok => errs' = Append(errs, Err("TypeError", AtToken))
                        /\ nf.kind \in SequenceKinds /\ r.ok /\ AtToken # <<>>
                              => v'[nf.name] = Append(v[nf.name], AtToken)
                ELSE v' = v]_vars

C29_Witness ==
    /\ FirstOver
    /\ call.shape = "Tail"
    /\ call.args = <<W_alice, W_7, W_alice>>
    /\ ps.pc = "done"
    /\ files = {}
    /\ v["Text"] = W_alice
    /\ v["Rest"] = <<W_7, W_alice>>
    /\ v["Last"] = <<>>

----------------------------------------------------------------------------
(* The empty token.                                                        *)

\* a process run with [--flag=] and a process run with [--flag, ""]
EmptyCalls ==
    {[shape |-> "Forms", args |-> <<k \o <<"=">>>>, again |-> <<k, <<>>>>,
      ignoreUnknown |-> g] : k \in FormKeys, g \in BOOLEAN}

EmptyInit ==
    /\ SearchIdle
    /\ \E c \in EmptyCalls, w \in Worlds, b \in BOOLEAN :
          /\ call = c
          /\ ctx = [name |-> P_say, args |-> c.args, longest |-> P_say]
          /\ exitOnErr = b
          /\ files = w.files
          /\ envs = w.envs
    /\ predefined = Predefined
    /\ configs = Registered2
    /\ parsing = [flags |-> <<>>, nonflags |-> <<>>]
    /\ v = <<>>
    /\ ps = IdleParse
    /\ errs = <<>>
    /\ usage = 0
    /\ prev = <<>>

\* the tokens applied before a process parses: the empty one, a number, a word
EmptyTokens == {<<>>, W_7, W_alice}

EmptyNext ==
    \/ FormsNext
    \/ /\ ps.pc = "idle"
       /\ \E kind \in CoerceKinds : \E cur \in Held(kind), s \in EmptyTokens :
             Coerce(kind, cur, s)

EmptySpec == EmptyInit /\ [][EmptyNext]_vars

\* the argument overlay stands at a declared flag followed by "=" and nothing
AtEmptyFlag ==
    /\ ps.pc = "args"
    /\ ps.i <= Len(ps.args)
    /\ \E k \in FormKeys : AtToken = k \o <<"=">>

----------------------------------------------------------------------------
(* parseCortanaTags over record shapes.                                    *)

Field(name, tag, kind) == [Name |-> name, tag |-> tag, kind |-> kind, fields |-> <<>>]

Nested(name, fields) == [Name |-> name, tag |-> <<>>, kind |-> "struct", fields |-> fields]

\* a nested record with a flag and a positional
InnerRecord ==
    Nested("Inner", << Field("Age", Tag(<<L_age, T_dash, W_18>>), "int"),
                       Field("Num", W_num, "int") >>)

\* a record nesting a positional, the record above and a flag
OuterRecord ==
    Nested("Outer", << Field("Rest", W_rest, "[]string"), InnerRecord,
                       Field("Tags", L_tag, "[]string") >>)

\* the fields a record is declared from: a flag, a positional, an untagged
\* field, a field with "-" for both names, a flag with a short name only,
\* and the nested records
TagFields ==
    { Field("Name", Tag(<<L_name, T_n, W_tom>>), "string"),
      Field("Text", W_text, "string"),
      Field("Note", <<>>, "string"),
      Field("Skip", Tag(<<T_dash, T_dash>>), "string"),
      Field("Verbose", Tag(<<T_dash, T_v>>), "bool"),
      InnerRecord,
      OuterRecord }

\* fields of a record
MaxFields == 3

\* the records: every field is declared once
TagShapes ==
    {fs \in SeqsUpTo(TagFields, MaxFields) :
        \A i, j \in 1..Len(fs) : i # j => fs[i] # fs[j]}

\* parseCortanaTags(reflect.ValueOf(v)) for a record of the shape
CollectTags(fields) ==
    /\ sc.pc = "idle"
    /\ out' = [op |-> "parseCortanaTags", arg |-> <<fields>>,
               result |-> <<parseCortanaTags(fields)>>]
    /\ UNCHANGED <<commands, seq, ctx, sc, lc, parseVars>>

TagsNext == \E fields \in TagShapes : CollectTags(fields)

TagsSpec == Init /\ [][TagsNext]_vars

Collected == out.op = "parseCortanaTags"

\* the long name declared by a field's tag
LongOf(ft) == parseFlag(ft.tag, ft.Name, ft.kind).long

ShortOf(ft) == parseFlag(ft.tag, ft.Name, ft.kind).short

Dashed(ft) == HasPrefix(LongOf(ft), <<"-">>)

Undashed(ft) == ~Dashed(ft)

\* "-" stands for both names
Nameless(ft) == LongOf(ft) = <<"-">> /\ ShortOf(ft) = <<"-">>

IsFlagField(ft) == Dashed(ft) /\ ~Nameless(ft)

FieldNames(fs) == [k \in 1..Len(fs) |-> fs[k].Name]

BoundNames(bs) == [k \in 1..Len(bs) |-> bs[k].name]

\* C31 as stated: the flags are the leaf fields, in depth-first declaration
\* order, whose long name starts with '-', and the positionals are all the
\* other leaf fields in that order.
C31_Original ==
    Collected
        => LET ls == Leaves(out.arg[1])
               r == out.result[1]
           IN /\ BoundNames(r.flags) = FieldNames(SelectSeq(ls, Dashed))
              /\ BoundNames(r.nonflags) = FieldNames(SelectSeq(ls, Undashed))

\* C31: the flags and the positionals each come in depth-first declaration
\* order, a nested record's bindings in the place of the nested field; a
\* leaf field whose long name lacks the '-' prefix is a positional, a leaf
\* field with "-" for both its long and its short name is bound to nothing,
\* and every other leaf field is a flag.
C31_TagOrder ==
    Collected
        => LET ls == Leaves(out.arg[1])
               r == out.result[1]
           IN /\ BoundNames(r.flags) = FieldNames(SelectSeq(ls, IsFlagField))
              /\ BoundNames(r.nonflags) = FieldNames(SelectSeq(ls, Undashed))

C31_Witness ==
    /\ Collected
    /\ FieldNames(out.arg[1]) = <<"Outer", "Skip", "Name">>
    /\ BoundNames(out.result[1].flags) = <<"Age", "Tags", "Name">>
    /\ BoundNames(out.result[1].nonflags) = <<"Rest", "Num">>

----------------------------------------------------------------------------
(* The index of flag names.                                                *)

DashTokens == {T_dash, T_v, L_age, W_7}

\* a command body that parses into the record whose flags share names
DashCalls ==
    {[shape |-> "Dash", args |-> a, again |-> a, ignoreUnknown |-> g] :
        a \in SeqsUpTo(DashTokens, MaxParseArgs), g \in BOOLEAN}

DashInit ==
    /\ SearchIdle
    /\ \E c \in DashCalls, w \in Worlds, b \in BOOLEAN :
          /\ call = c
          /\ ctx = [name |-> P_say, args |-> c.args, longest |-> P_say]
          /\ exitOnErr = b
          /\ files = w.files
          /\ envs = w.envs
    /\ predefined = Predefined
    /\ configs = Registered2
    /\ parsing = [flags |-> <<>>, nonflags |-> <<>>]
    /\ v = <<>>
    /\ ps = IdleParse
    /\ errs = <<>>
    /\ usage = 0
    /\ prev = <<>>

DashSpec == DashInit /\ [][ParseNext]_vars

\* the names the flags of the call declare
DeclaredNames ==
    UNION {{parsing.flags[k].long, parsing.flags[k].short} : k \in 1..Len(parsing.flags)}
        \ {<<>>}

\* the last flag declared with the name
LastDeclared(key) ==
    parsing.flags[CHOOSE k \in 1..Len(parsing.flags) :
        /\ key \in {parsing.flags[k].long, parsing.flags[k].short}
        /\ \A j \in (k + 1)..Len(parsing.flags) :
               key \notin {parsing.flags[j].long, parsing.flags[j].short}]

\* the argument overlay stands at a lone "-"
AtLoneDash ==
    /\ ps.pc = "args"
    /\ ps.i <= Len(ps.args)
    /\ AtToken = T_dash

\* C32 as stated: the index of a Parse call has no entry for "-", a lone
\* "-" token binds to no declared flag (the step over it changes no
\* destination), and a name declared by several flags maps to the last
\* declared one.
C32_Original ==
    [][/\ ps.pc # "idle" => buildArgsIndex(parsing.flags, T_dash) = NoFlag
       /\ (AtLoneDash /\ ps' # ps) => v' = v
       /\ ps.pc # "idle" =>
             \A key \in DeclaredNames \ {T_dash} :
                 buildArgsIndex(parsing.flags, key) = LastDeclared(key)]_vars

----------------------------------------------------------------------------
(* The tokens SearchCommand accounts for.                                  *)

Range(q) == {q[k] : k \in 1..Len(q)}

\* SearchCommand ran to the end of its input with a command committed
Returned == RanToEnd /\ sc.cmd # NoCmd

\* C33 as stated: whenever SearchCommand returns a command every input
\* token is a word of the returned command's path or an element of the
\* context's args, and the words of the path and the args together are as
\* many as the input tokens.
C33_Original ==
    Returned
        => /\ \A k \in 1..Len(sc.args) :
                 sc.args[k] \in Range(Words(sc.cmd.Path)) \cup Range(ctx.args)
           /\ Len(Words(sc.cmd.Path)) + Len(ctx.args) = Len(sc.args)

----------------------------------------------------------------------------
(* Faults of the argument overlay.                                         *)

\* a commander built by New() alone: the help flag, no config-path flag
HelpOnly == [Predefined EXCEPT !.cfg = [long |-> <<>>, short |-> <<>>]]

FaultTokens == {<<>>, T_n, W_alice, L_config}

FaultCalls ==
    {[shape |-> "Say", args |-> a, again |-> a, ignoreUnknown |-> g] :
        a \in SeqsUpTo(FaultTokens, MaxParseArgs), g \in BOOLEAN}

\* a command body about to call Parse, the commander set up with or without
\* ConfFlag and AddConfig
FaultInit ==
    /\ SearchIdle
    /\ \E c \in FaultCalls, b \in BOOLEAN :
          /\ call = c
          /\ ctx = [name |-> P_say, args |-> c.args, longest |-> P_say]
          /\ exitOnErr = b
    /\ files = {}
    /\ envs = <<>>
    /\ \E setup \in {[p |-> Predefined, cs |-> Registered2],
                      [p |-> HelpOnly, cs |-> Registered2],
                      [p |-> HelpOnly, cs |-> <<>>]} :
          /\ predefined = setup.p
          /\ configs = setup.cs
    /\ parsing = [flags |-> <<>>, nonflags |-> <<>>]
    /\ v = <<>>
    /\ ps = IdleParse
    /\ errs = <<>>
    /\ usage = 0
    /\ prev = <<>>

FaultSpec == FaultInit /\ [][ParseNext]_vars

\* C34 as stated: whatever the argument list, empty tokens included, Parse
\* never faults with an index out of range, neither at the token after a
\* flag nor at the configuration source of the config-path flag.
C34_Original == ps.pc # "panicked"

----------------------------------------------------------------------------
(* The values of flags and the command selected.                           *)

\* two argument vectors that differ only in one non-flag token that comes
\* right after a flag token
ValueVariant(a, b) ==
    /\ Len(a) = Len(b)
    /\ \E k \in 2..Len(a) :
          /\ IsFlagToken(a[k - 1])
          /\ ~IsFlagToken(a[k]) /\ ~IsFlagToken(b[k])
          /\ a[k] # b[k]
          /\ \A j \in 1..Len(a) : j # k => a[j] = b[j]

\* SearchCommand returned; it is called again on the same commander with
\* the vector that gives the flag another value (lines 171-186)
SearchOther(args) ==
    /\ sc.pc = "done"
    /\ out = NoOut
    /\ ValueVariant(sc.args, args)
    /\ out' = [op |-> "SearchCommand", arg |-> <<sc.args>>, result |-> <<sc.cmd>>]
    /\ ctx' = EmptyCtx
    /\ sc' = [pc |-> "run", args |-> args, i |-> 1, st |-> "StateCommand",
              path |-> <<>>, cmd |-> get(<<>>), cmdArgs |-> <<>>, maybeArgs |-> <<>>]
    /\ UNCHANGED <<commands, seq, lc, parseVars>>

VariantNext ==
    \/ \E path \in PathPool : AddCommand(path, ProcOf(path))
    \/ \E args \in FlagVectors : SearchBegin(args)
    \/ StepCommand
    \/ StepCommandPrefix
    \/ StepOptionFlag
    \/ StepOptionArg
    \/ StepCommandArg
    \/ SearchEnd
    \/ \E args \in FlagVectors : SearchOther(args)

VariantSpec == Init /\ [][VariantNext]_vars

\* C35 as stated: two argument vectors that differ only in a non-flag token
\* right after a flag token make SearchCommand return the same command.
C35_Original ==
    (out.op = "SearchCommand" /\ sc.pc = "done") => sc.cmd = out.result[1]

----------------------------------------------------------------------------
(* The elements of a sequence-typed positional.                            *)

RECURSIVE PositionalTokens(_)
\* the non-empty tokens of an argument list supplied for the positionals:
\* those that are neither flags nor the value of a flag or of the
\* config-path flag
PositionalTokens(args) ==
    IF args = <<>> THEN <<>>
    ELSE IF ~IsFlagToken(Head(args))
    THEN (IF Head(args) = <<>> THEN <<>> ELSE <<Head(args)>>)
             \o PositionalTokens(Tail(args))
    ELSE LET key == Head(args)
             flag == buildArgsIndex(parsing.flags, key)
             takesNext == /\ Len(args) > 1
                          /\ args[2] # <<>>
                          /\ IF IsConfigKey(key) THEN args[2][1] # "-"
                             ELSE /\ flag # NoFlag
                                  /\ flag.kind # "bool"
                                  /\ IsValueToken(args[2])
         IN PositionalTokens(IF takesNext THEN Tail(Tail(args)) ELSE Tail(args))

\* C36 as stated, for the sequence-typed positional of the record: after a
\* successful Parse it holds one element per token supplied for it, in
\* input order, also when a config-path flag later in the list restarted
\* the passes.
C36_Original ==
    (Succeeded /\ call.shape = "SayAll")
        => v["Text"] = PositionalTokens(call.args)

----------------------------------------------------------------------------
(* The configuration sources across Parse calls.                           *)

AgainTokens == {L_config, F_other, W_hello}

\* a command body that calls Parse with one argument list and then with the
\* same list, with a word alone, or with nothing
AgainCalls ==
    {[shape |-> "Say", args |-> a, again |-> b, ignoreUnknown |-> FALSE] :
        a \in SeqsUpTo(AgainTokens, MaxParseArgs), b \in {<<>>, <<W_hello>>}}
    \cup {[shape |-> "Say", args |-> a, again |-> a, ignoreUnknown |-> FALSE] :
             a \in SeqsUpTo(AgainTokens, MaxParseArgs)}

AgainInit ==
    /\ SearchIdle
    /\ \E c \in AgainCalls, w \in Worlds, b \in BOOLEAN :
          /\ call = c
          /\ ctx = [name |-> P_say, args |-> c.args, longest |-> P_say]
          /\ exitOnErr = b
          /\ files = w.files
          /\ envs = w.envs
    /\ predefined = Predefined
    /\ configs = Registered2
    /\ parsing = [flags |-> <<>>, nonflags |-> <<>>]
    /\ v = <<>>
    /\ ps = IdleParse
    /\ errs = <<>>
    /\ usage = 0
    /\ prev = <<>>

AgainSpec == AgainInit /\ [][ParseNext]_vars

RegisteredPaths == {Registered2[k].path : k \in 1..Len(Registered2)}

\* the second call is given no config-path flag
SecondWithoutFlag ==
    /\ prev # <<>>
    /\ \A k \in 1..Len(call.again) : ~IsConfigKey(TokenKey(call.again[k]))

\* C37 as stated: a Parse call that is over leaves as many configuration
\* sources as were registered, and a later call that is given no
\* config-path flag decodes registered sources only and reports no missing
\* or unreadable file for a path an earlier call was given.
C37_Original ==
    /\ Finished => Len(configs) = Len(Registered2)
    /\ (SecondWithoutFlag /\ ps.pc \notin {"idle", "configs"})
          => /\ Range(ps.decoded) \subseteq RegisteredPaths
             /\ \A k \in 1..Len(errs) :
                    errs[k].kind = "ConfigReadError" => errs[k].what \in RegisteredPaths

----------------------------------------------------------------------------
(* The list handed to WithArgs.                                            *)

\* C38 as stated: when Parse(v, WithArgs(a)) is over, restarts included, a
\* holds the tokens it held before the call, in their order.
C38_Original == (Second /\ Finished) => ps.array = call.again

----------------------------------------------------------------------------
(* Chains of aliases.                                                      *)

\* an alias of hi is registered with the words say hello or with hi itself
ChainDefs == {D_say_hello, D_hi}

\* a step of a Launch call that is under way
LaunchStep ==
    \/ StepCommand
    \/ StepCommandPrefix
    \/ StepOptionFlag
    \/ StepOptionArg
    \/ StepCommandArg
    \/ SearchEnd
    \/ LaunchProc

\* registrations, then one Launch of the alias
ChainNext ==
    \/ \E path \in {P_say, P_say_hello} : AddCommand(path, ProcOf(path))
    \/ \E definition \in ChainDefs : Alias(W_hi, definition)
    \/ \E rest \in Rests :
          lc.n = 0 /\ get(W_hi) # NoCmd /\ get(W_hi).Alias /\ Launch(<<W_hi>> \o rest)
    \/ LaunchStep

\* Launch runs on one thread of control: a call under way takes its next
\* step; whether anything is registered or launched is left open
ChainFair == Init /\ [][ChainNext]_vars /\ WF_vars(LaunchStep)

\* C39 as stated: a Launch that is under way ends, having run a non-alias
\* command or having found no command, after finitely many resolutions.
C39_Original == (lc.pc \in {"Launch", "alias"}) ~> (lc.pc \in {"idle", "exited"})

----------------------------------------------------------------------------
(* Commits and the root command.                                           *)

RootPaths == {P_root, P_say, P_say_hello}
RootTokens == {<<>>, W_say, W_hello, T_n}

\* registrations, the root command among them or not, then a resolution
RootNext ==
    \/ \E path \in RootPaths : AddCommand(path, ProcOf(path))
    \/ \E args \in SeqsUpTo(RootTokens, MaxArgs) : SearchBegin(args)
    \/ StepCommand
    \/ StepCommandPrefix
    \/ StepOptionFlag
    \/ StepOptionArg
    \/ StepCommandArg
    \/ SearchEnd

RootSpec == Init /\ [][RootNext]_vars

\* the step takes the branch cmd = commands[0]
CommitStep ==
    /\ AtWord(Extending)
    /\ scan(Extended) # <<>>
    /\ scan(Extended)[1].Path = Extended

\* SearchCommand returned nil inside the loop
ReturnedEarly == sc.pc = "done" /\ sc.i <= Len(sc.args)

\* what holds of the root command and of the early return
RootAndEarlyReturn ==
    /\ (sc.pc = "done" /\ get(<<>>) # NoCmd) => sc.cmd # NoCmd
    /\ ReturnedEarly
          => /\ sc.i = 1
             /\ ~IsFlagToken(sc.args[1])
             /\ scan(TrimSpace(sc.args[1])) = <<>>
             /\ get(<<>>) = NoCmd

\* C40 as stated: a committed command is never un-committed, each later
\* commit is to a strictly longer path, with a root command registered a
\* command is returned for every argument vector, and none is returned
\* before the end of input only at a first non-flag token that starts no
\* registered path while no root command exists.
C40_Original ==
    /\ [][sc.cmd # NoCmd => sc'.cmd # NoCmd]_vars
    /\ [][(CommitStep /\ sc.cmd # NoCmd)
             => Len(sc'.cmd.Path) > Len(sc.cmd.Path)]_vars
    /\ []RootAndEarlyReturn

\* C40: a committed command is never un-committed; a later commit is to a
\* strictly longer path, except that a token that is empty once trimmed
\* commits the committed command again; with a root command registered a
\* command is returned for every argument vector, and none is returned
\* before the end of input only at a first non-flag token that starts no
\* registered path while no root command exists.
C40_CommitsDeepen ==
    /\ [][sc.cmd # NoCmd => sc'.cmd # NoCmd]_vars
    /\ [][(CommitStep /\ sc.cmd # NoCmd)
             => IF TrimSpace(Arg) = <<>> THEN sc'.cmd = sc.cmd
                ELSE Len(sc'.cmd.Path) > Len(sc.cmd.Path)]_vars
    /\ []RootAndEarlyReturn

C40_Witness ==
    /\ RanToEnd
    /\ sc.args = <<W_say, <<>>, W_hello>>
    /\ {e.Path : e \in commands} = RootPaths
    /\ sc.cmd = get(P_say_hello)
    /\ ctx.args = <<>>

=============================================================================
